---- MODULE Spec2Model ----
(***************************************************************************)
(* Model of the DMS CDC replay engine: the artifact locator                *)
(* (s3_operator.rs), the target SQL operator (postgres_operator_impl.rs,   *)
(* table_query.rs, postgres_row_struct.rs), the per-table driver and the   *)
(* buffer_unordered fan-out (cdc_operator.rs) and the client's main.       *)
(*                                                                         *)
(* Text is modelled as sequences of one-character strings, so that         *)
(* quoting, escaping and substring tests are computed, not assumed.        *)
(* A cell value is a record [t, v]: t is the AnyValue variant and v the    *)
(* characters of its payload (decimal digits for an integer).              *)
(***************************************************************************)
EXTENDS Integers, Sequences, FiniteSets, TLC

VARIABLES
    args,            \* the two flags as given to CDCOperatorPayload::new
    only_datadiff,   \* CDCOperatorPayload.only_datadiff
    only_snapshot,   \* CDCOperatorPayload.only_snapshot
    mode,            \* CDCOperatorSnapshotPayload.mode
    start_date,      \* CDCOperatorSnapshotPayload.start_date (NoDate = None)
    stop_date,       \* CDCOperatorSnapshotPayload.stop_date  (NoDate = None)
    num_of_buffers,  \* NUM_OF_BUFFERS as read by snapshot
    main_pc,         \* position of main
    snap_pc,         \* position of CDCOperator::snapshot
    table_list,      \* result of get_tables_in_schema
    driver,          \* per table: the state of its future
    target,          \* per table: the table in the target database
    issued,          \* per table: the statements sent to the target, in order
    last,            \* per table: the last CDC row or Load chunk applied
    target_schema,   \* the schema exists in the target database
    panicked,        \* a panic has unwound main: the process is gone
    cell,            \* a string cell handed to the statement builders
    rendered,        \* the literals the builders made of it
    source,          \* per table: the table in the source database
    calls,           \* the operator methods invoked so far: <<operator, method>>
    lister,          \* one run of get_list_of_parquet_files_from_s3, request by request
    env,             \* the environment variables of the process
    max_connections  \* PostgresConfig.max_connections of the target pool

vars == <<args, only_datadiff, only_snapshot, mode, start_date, stop_date,
          num_of_buffers, main_pc, snap_pc, table_list, driver, target,
          issued, last, target_schema, panicked, cell, rendered, source, calls, lister,
          env, max_connections>>

(***************************************************************************)
(* Bounds                                                                  *)
(***************************************************************************)
MaxTables == 3
MaxBuffers == 2
RowsPerDf == 2
\* the tallest generated Load batch
MaxRows == 4
\* the largest target pool
MaxConnections == 2
\* the longest run of filler characters in a generated cell
MaxPad == 18

(***************************************************************************)
(* Text helpers                                                            *)
(***************************************************************************)
RECURSIVE ReplaceChar(_, _, _)
\* str::replace(from, to) for a one-character pattern
ReplaceChar(s, from, to) ==
    IF s = <<>> THEN <<>>
    ELSE (IF Head(s) = from THEN to ELSE <<Head(s)>>) \o ReplaceChar(Tail(s), from, to)

\* str::contains(char)
ContainsChar(s, c) == \E i \in 1..Len(s) : s[i] = c

RECURSIVE JoinSeq(_, _)
\* [String]::join(sep) over character sequences
JoinSeq(ss, sep) ==
    IF ss = <<>> THEN <<>>
    ELSE IF Len(ss) = 1 THEN ss[1]
    ELSE ss[1] \o sep \o JoinSeq(Tail(ss), sep)

Digits == {"0", "1", "2", "3", "4", "5", "6", "7", "8", "9"}

(***************************************************************************)
(* Cell values (polars AnyValue)                                           *)
(***************************************************************************)
StrV(s) == [t |-> "str", v |-> s]
IntV(s) == [t |-> "int", v |-> s]
NullV == [t |-> "null", v |-> <<>>]

\* Display of AnyValue: a string is shown inside double quotes
AnyValueToString(value) ==
    CASE value.t = "str" -> <<"\"">> \o value.v \o <<"\"">>
      [] value.t = "null" -> <<"n", "u", "l", "l">>
      [] OTHER -> value.v

\* RowStruct::process_string_value
process_string_value(value) ==
    <<"'">> \o ReplaceChar(value, "'", <<"'", "'">>) \o <<"'">>

\* a decimal cell: the unscaled integer as its decimal text and the scale
DecimalV(integer, scale) == [t |-> "decimal", v |-> integer, scale |-> scale]

\* the decimal text of i64::MAX and of the magnitude of i64::MIN
I64MaxText == <<"9", "2", "2", "3", "3", "7", "2", "0", "3", "6", "8", "5", "4", "7",
                "7", "5", "8", "0", "7">>
I64MinText == <<"9", "2", "2", "3", "3", "7", "2", "0", "3", "6", "8", "5", "4", "7",
                "7", "5", "8", "0", "8">>

IsNegative(integer) == integer # <<>> /\ Head(integer) = "-"
Magnitude(integer) == IF IsNegative(integer) THEN Tail(integer) ELSE integer
\* the value of a decimal digit
DigitValue(c) == CHOOSE d \in 0..9 : c = <<"0", "1", "2", "3", "4", "5", "6", "7", "8", "9">>[d + 1]

\* a <= b for two decimal texts without leading zeros
TextLeq(a, b) ==
    \/ Len(a) < Len(b)
    \/ /\ Len(a) = Len(b)
       /\ \/ a = b
          \/ \E i \in 1..Len(a) :
                /\ DigitValue(a[i]) < DigitValue(b[i])
                /\ \A j \in 1..(i - 1) : a[j] = b[j]

\* i128::to_i64 returns Some
to_i64_is_some(integer) ==
    IF IsNegative(integer) THEN TextLeq(Magnitude(integer), I64MinText)
    ELSE TextLeq(integer, I64MaxText)

\* n copies of "0"
Zeros(n) == [i \in 1..n |-> "0"]

\* Display of rust_decimal::Decimal: the sign, the integer part, and after
\* a point the fraction in exactly scale digits
DecimalToString(integer, scale) ==
    LET digits == Magnitude(integer)
        padded == IF Len(digits) <= scale
                  THEN Zeros(scale + 1 - Len(digits)) \o digits ELSE digits
        whole == SubSeq(padded, 1, Len(padded) - scale)
        fraction == SubSeq(padded, Len(padded) - scale + 1, Len(padded))
    IN  (IF IsNegative(integer) THEN <<"-">> ELSE <<>>)
        \o whole \o (IF scale = 0 THEN <<>> ELSE <<".">> \o fraction)

\* RowStruct::process_decimal_value: integer.to_i64().expect(..) panics
DecimalPanics(integer, precision) == ~to_i64_is_some(integer)

\* RowStruct::process_decimal_value
process_decimal_value(integer, precision) ==
    <<"'">> \o DecimalToString(integer, precision) \o <<"'">>

\* RowStruct::new followed by RowStruct::displayed
displayed(value) ==
    CASE value.t = "str" -> process_string_value(value.v)
      [] value.t = "decimal" -> process_decimal_value(value.v, value.scale)
      [] OTHER -> AnyValueToString(value)

(***************************************************************************)
(* Geometry detection (PostgresGeometryType)                               *)
(***************************************************************************)
NUM_OF_CHARS_FOR_GEOMETRY_TYPE_CHECK == 30
MULTIPOLYGON == <<"M", "U", "L", "T", "I", "P", "O", "L", "Y", "G", "O", "N">>
ACCEPTED_GEOMETRY_KEYWORDS == {MULTIPOLYGON}

Take(s, n) == SubSeq(s, 1, IF Len(s) < n THEN Len(s) ELSE n)

\* a detector that looks at the whole input
PostgresGeometryType_WholeInput(input) ==
    IF Len(input) >= 2 /\ input[1] = "\"" /\ input[Len(input)] = "\""
    THEN SubSeq(input, 2, Len(input) - 1)
    ELSE input

\* PostgresGeometryType::new
PostgresGeometryType(input) ==
    LET value_type == Take(input, NUM_OF_CHARS_FOR_GEOMETRY_TYPE_CHECK)
    IN  IF Len(value_type) >= 1 /\ value_type[1] = "\"" /\ value_type[Len(value_type)] = "\""
        THEN (IF Len(value_type) >= 2
              THEN SubSeq(value_type, 2, Len(value_type) - 1)
              ELSE value_type)
        ELSE value_type

\* str::find('('): position of the first '(' or 0
FindParen(s) ==
    IF ContainsChar(s, "(")
    THEN CHOOSE i \in 1..Len(s) : s[i] = "(" /\ \A j \in 1..(i - 1) : s[j] # "("
    ELSE 0

\* PostgresGeometryType::is_geometry_type
is_geometry_type(value_type) ==
    /\ FindParen(value_type) > 0
    /\ SubSeq(value_type, 1, FindParen(value_type) - 1) \in ACCEPTED_GEOMETRY_KEYWORDS

\* PostgresGeometryType::format_value
format_value(value_type, value) ==
    LET p == FindParen(value_type)
        prefix == SubSeq(value_type, 1, IF p = 0 THEN Len(value_type) ELSE p - 1)
    IN  IF prefix = MULTIPOLYGON
        THEN <<"S", "T", "_", "G", "e", "o", "m", "F", "r", "o", "m", "T", "e", "x", "t", "(", "'">>
             \o value \o <<"'", ",", " ", "4", "3", "2", "6", ")">>
        ELSE value_type

RECURSIVE TrimLeft(_)
TrimLeft(s) == IF s # <<>> /\ Head(s) = " " THEN TrimLeft(Tail(s)) ELSE s
RECURSIVE TrimRight(_)
TrimRight(s) ==
    IF s # <<>> /\ s[Len(s)] = " " THEN TrimRight(SubSeq(s, 1, Len(s) - 1)) ELSE s
\* str::trim
Trim(s) == TrimRight(TrimLeft(s))

\* preprocess_value: the rendering used by the bulk insert
preprocess_value(value) ==
    IF value.t = "str"
    THEN LET potential_geometry_value == Trim(value.v)
             postgres_geometry_type == PostgresGeometryType(potential_geometry_value)
         IN  IF is_geometry_type(postgres_geometry_type)
             THEN format_value(postgres_geometry_type, potential_geometry_value)
             ELSE process_string_value(value.v)
    ELSE displayed(value)

(***************************************************************************)
(* SQL text.  A query is a sequence of fragments in the order the code     *)
(* concatenates them, so that the place of the ';' is part of the text.    *)
(***************************************************************************)
Frag(k, tbl, cols, vals, set) == [k |-> k, tbl |-> tbl, cols |-> cols, vals |-> vals, set |-> set]

\* "INSERT INTO {schema}.{table} ({fields}) VALUES (..), (..)"
InsertFrag(tbl, fields, values) == Frag("INSERT", tbl, fields, values, <<>>)
\* ";"
SemiFrag == Frag(";", "", <<>>, <<>>, <<>>)
\* " ON CONFLICT ({pk}) DO UPDATE SET c1 = v1, ..."
OnConflictFrag(pk, set) == Frag("ON CONFLICT", "", pk, <<>>, set)

\* TableQuery::DeleteRows: "DELETE FROM {table} WHERE {pk}={value}"
DeleteRows(tbl, primary_key, primary_key_value) ==
    Frag("DELETE", tbl, primary_key, <<primary_key_value>>, <<>>)

\* TableQuery::CreateSchema: "CREATE SCHEMA IF NOT EXISTS {schema}"
TableQuery_CreateSchema(schema_name) ==
    Frag("CREATE SCHEMA IF NOT EXISTS", schema_name, <<>>, <<>>, <<>>)

\* a CREATE TABLE text without the IF NOT EXISTS guard
CreateTable_Plain(tbl, column_data_types, primary_key) ==
    Frag("CREATE TABLE", tbl,
         <<"Op", "_dms_ingestion_timestamp">> \o column_data_types, <<>>, primary_key)
\* TableQuery::CreateTable: "CREATE TABLE IF NOT EXISTS .. (Op varchar, .., PRIMARY KEY (pk))"
CreateTable(tbl, column_data_types, primary_key) ==
    Frag("CREATE TABLE IF NOT EXISTS", tbl,
         <<"Op", "_dms_ingestion_timestamp">> \o column_data_types, <<>>, primary_key)

(***************************************************************************)
(* The target database: what PostgreSQL does with a query text             *)
(***************************************************************************)
BadV == [t |-> "bad", v |-> <<>>]

RECURSIVE WellQuoted(_)
\* inside a quoted literal every ' is doubled
WellQuoted(s) ==
    IF s = <<>> THEN TRUE
    ELSE IF Head(s) # "'" THEN WellQuoted(Tail(s))
    ELSE Len(s) >= 2 /\ s[2] = "'" /\ WellQuoted(Tail(Tail(s)))

RECURSIVE Unescape(_)
Unescape(s) ==
    IF s = <<>> THEN <<>>
    ELSE IF Head(s) = "'" THEN <<"'">> \o Unescape(Tail(Tail(s)))
    ELSE <<Head(s)>> \o Unescape(Tail(s))

\* the value a literal denotes
ParseLit(l) ==
    IF l = <<"N", "U", "L", "L">> \/ l = <<"n", "u", "l", "l">> THEN NullV
    ELSE IF Len(l) >= 2 /\ l[1] = "'" /\ l[Len(l)] = "'"
    THEN (IF WellQuoted(SubSeq(l, 2, Len(l) - 1))
          THEN StrV(Unescape(SubSeq(l, 2, Len(l) - 1)))
          ELSE BadV)
    ELSE IF l # <<>> /\ \A i \in 1..Len(l) : l[i] \in Digits THEN IntV(l)
    ELSE BadV

NoTable == [exists |-> FALSE, cols |-> <<>>, pk |-> <<>>, rows |-> {}]

Range(f) == {f[x] : x \in DOMAIN f}

\* the primary-key value of a stored row
KeyOf(tbl, r) == [i \in 1..Len(tbl.pk) |-> r[tbl.pk[i]].v]

\* the row a VALUES tuple denotes: unlisted columns are NULL
RowOf(tbl, cols, lits) ==
    [c \in Range(tbl.cols) |->
        IF \E i \in 1..Len(cols) : cols[i] = c
        THEN ParseLit(lits[CHOOSE i \in 1..Len(cols) : cols[i] = c])
        ELSE NullV]

\* a VALUES tuple the table accepts
TupleOk(tbl, cols, lits) ==
    /\ Len(lits) = Len(cols)
    /\ \A i \in 1..Len(cols) : cols[i] \in Range(tbl.cols) /\ ParseLit(lits[i]) # BadV
    /\ \A i, j \in 1..Len(cols) : cols[i] = cols[j] => i = j
    /\ \A i \in 1..Len(tbl.pk) : RowOf(tbl, cols, lits)[tbl.pk[i]] # NullV

Failed(tbl) == [ok |-> FALSE, tbl |-> tbl]
Done(tbl) == [ok |-> TRUE, tbl |-> tbl]

\* INSERT without ON CONFLICT: all tuples or none; a duplicate key is an error
ExecInsert(tbl, f) ==
    LET new == {RowOf(tbl, f.cols, f.vals[i]) : i \in 1..Len(f.vals)}
    IN  IF /\ tbl.exists
           /\ f.vals # <<>>
           /\ \A i \in 1..Len(f.vals) : TupleOk(tbl, f.cols, f.vals[i])
           /\ \A i, j \in 1..Len(f.vals) :
                KeyOf(tbl, RowOf(tbl, f.cols, f.vals[i])) = KeyOf(tbl, RowOf(tbl, f.cols, f.vals[j]))
                    => i = j
           /\ \A r \in new : \A o \in tbl.rows : KeyOf(tbl, r) # KeyOf(tbl, o)
        THEN Done([tbl EXCEPT !.rows = tbl.rows \cup new])
        ELSE Failed(tbl)

\* INSERT .. ON CONFLICT (pk) DO UPDATE SET ..: one tuple
ExecUpsert(tbl, f, c) ==
    LET r == RowOf(tbl, f.cols, f.vals[1])
        hit == {o \in tbl.rows : KeyOf(tbl, o) = KeyOf(tbl, r)}
        upd(o) == [col \in DOMAIN o |->
                      IF \E i \in 1..Len(c.set) : c.set[i][1] = col
                      THEN ParseLit(c.set[CHOOSE i \in 1..Len(c.set) : c.set[i][1] = col][2])
                      ELSE o[col]]
    IN  IF /\ tbl.exists
           /\ Len(f.vals) = 1
           /\ TupleOk(tbl, f.cols, f.vals[1])
           /\ c.cols = tbl.pk
           /\ c.set # <<>>
           /\ \A i \in 1..Len(c.set) : c.set[i][1] \in Range(tbl.cols) /\ ParseLit(c.set[i][2]) # BadV
        THEN Done([tbl EXCEPT !.rows = IF hit = {} THEN tbl.rows \cup {r}
                                       ELSE (tbl.rows \ hit) \cup {upd(o) : o \in hit}])
        ELSE Failed(tbl)

\* DELETE FROM t WHERE pk=value: a single column compared with a single literal
ExecDelete(tbl, f) ==
    IF /\ tbl.exists
       /\ Len(f.cols) = 1
       /\ f.cols[1] \in Range(tbl.cols)
       /\ ParseLit(f.vals[1]) # BadV
    THEN IF ParseLit(f.vals[1]) = NullV
         THEN Done(tbl)   \* "= null" is true of no row
         ELSE Done([tbl EXCEPT !.rows =
                      {o \in tbl.rows : o[f.cols[1]].v # ParseLit(f.vals[1]).v}])
    ELSE Failed(tbl)

\* CREATE TABLE IF NOT EXISTS: nothing happens when the table is there
ExecCreate(tbl, f) ==
    IF tbl.exists THEN Done(tbl)
    ELSE IF f.set # <<>> /\ \A i \in 1..Len(f.set) : f.set[i] \in Range(f.cols)
    THEN Done([exists |-> TRUE, cols |-> f.cols, pk |-> f.set, rows |-> {}])
    ELSE Failed(tbl)

\* CREATE TABLE: an existing relation is an error
ExecCreatePlain(tbl, f) ==
    IF tbl.exists THEN Failed(tbl) ELSE ExecCreate(tbl, f)

\* CREATE SCHEMA IF NOT EXISTS: the schema exists afterwards, nothing else is touched
ExecuteSchema(schema_exists, query) ==
    IF Len(query) = 1 /\ query[1].k = "CREATE SCHEMA IF NOT EXISTS"
    THEN [ok |-> TRUE, exists |-> TRUE]
    ELSE [ok |-> FALSE, exists |-> schema_exists]

\* one prepared statement: a single command, optionally closed by ';'
Execute(tbl, query) ==
    LET q == IF query # <<>> /\ query[Len(query)].k = ";"
             THEN SubSeq(query, 1, Len(query) - 1) ELSE query
    IN  IF Len(q) = 1 /\ q[1].k = "INSERT" THEN ExecInsert(tbl, q[1])
        ELSE IF Len(q) = 2 /\ q[1].k = "INSERT" /\ q[2].k = "ON CONFLICT"
        THEN ExecUpsert(tbl, q[1], q[2])
        ELSE IF Len(q) = 1 /\ q[1].k = "DELETE" THEN ExecDelete(tbl, q[1])
        ELSE IF Len(q) = 1 /\ q[1].k = "CREATE TABLE IF NOT EXISTS" THEN ExecCreate(tbl, q[1])
        ELSE IF Len(q) = 1 /\ q[1].k = "CREATE TABLE" THEN ExecCreatePlain(tbl, q[1])
        ELSE Failed(tbl)

(***************************************************************************)
(* The source database and the bucket: the environment of one run          *)
(***************************************************************************)
SourceTables == <<"t1", "t2", "t3">>
SourceColumns(t) == <<"id", "name">>
SourcePk(t) == IF t = "t1" THEN <<"name">> ELSE <<"id">>
\* the source database: every table exists and holds one row
SourceDb ==
    [t \in {SourceTables[i] : i \in 1..Len(SourceTables)} |->
        [exists |-> TRUE, cols |-> SourceColumns(t), pk |-> SourcePk(t),
         rows |-> {[c \in {"id", "name"} |->
                      IF c = "id" THEN IntV(<<"1">>) ELSE StrV(<<"a">>)]}]]

NoDate == -1
\* a date text that DateTime::from_str / NaiveDate::parse_from_str rejects
BadDate == -2
StartDates == {NoDate, BadDate, 3}
StopDates == {NoDate, BadDate, 7}

DmsCols == <<"Op", "_dms_ingestion_timestamp", "id", "name">>
Row(op, id, name) == <<StrV(op), StrV(<<"0">>), IntV(id), StrV(name)>>

Key_t1_load == <<"t", "1", "/", "L", "O", "A", "D", "1">>
Key_t1_cdc == <<"t", "1", "/", "c", "1">>
Key_t2_load == <<"t", "2", "/", "L", "O", "A", "D", "1">>
Key_t2_cdc == <<"t", "2", "/", "c", "1">>
\* a Load of t2 that declares a column the source table does not have
Key_t2_load_extra == <<"t", "2", "/", "L", "O", "A", "D", "x">>
\* a Load of t2 written without the two DMS columns
Key_t2_load_bare == <<"t", "2", "/", "L", "O", "A", "D", "b">>
Key_t3_load == <<"t", "3", "/", "L", "O", "A", "D", "1">>
Key_t3_cdc == <<"t", "3", "/", "c", "1">>

\* the objects under each table's prefix: key and last-modified time
Bucket(t) ==
    CASE t = "t1" -> {[key |-> Key_t1_load, last_modified |-> 1],
                      [key |-> Key_t1_cdc, last_modified |-> 5]}
      [] t = "t2" -> {[key |-> Key_t2_load, last_modified |-> 1],
                      [key |-> Key_t2_cdc, last_modified |-> 5]}
      [] OTHER -> {[key |-> Key_t3_load, last_modified |-> 1],
                   [key |-> Key_t3_cdc, last_modified |-> 5]}

\* the buckets a run can meet: t2's Load is well formed, drifted or bare
Buckets(t) ==
    IF t = "t2"
    THEN {Bucket(t),
          {[key |-> Key_t2_load_extra, last_modified |-> 1],
           [key |-> Key_t2_cdc, last_modified |-> 5]},
          {[key |-> Key_t2_load_bare, last_modified |-> 1],
           [key |-> Key_t2_cdc, last_modified |-> 5]}}
    ELSE {Bucket(t)}

\* the decimal digits in order
Numerals == <<"0", "1", "2", "3", "4", "5", "6", "7", "8", "9">>
\* a Load of t3 of h rows, with ids 1..h
BatchKey(h) == <<"t", "3", "/", "L", "O", "A", "D", "h", Numerals[h + 1]>>
BatchKeys == {BatchKey(h) : h \in 0..MaxRows}
BatchHeight(key) == CHOOSE h \in 0..MaxRows : key = BatchKey(h)
BatchRow(i) == Row(<<>>, <<Numerals[i + 1]>>, <<"r">>)

\* a Change batch of t3 whose columns come in a given order: the key spells
\* the order with the first character of each column name
ShuffledPrefix == <<"t", "3", "/", "c", "s">>
Initial(column) ==
    CASE column = "Op" -> "O"
      [] column = "_dms_ingestion_timestamp" -> "_"
      [] column = "id" -> "i"
      [] OTHER -> "n"
ShuffledKey(order) == ShuffledPrefix \o [i \in 1..Len(order) |-> Initial(order[i])]
IsShuffledKey(key) == Len(key) = 9 /\ SubSeq(key, 1, 5) = ShuffledPrefix
\* the rows of the batch with their columns in the standard order
ShuffledRows == <<Row(<<"I">>, <<"1">>, <<"a">>),
                  Row(<<"U">>, <<"1">>, <<"b">>),
                  Row(<<"I">>, <<"2">>, <<"c">>),
                  Row(<<"D">>, <<"1">>, <<"b">>)>>
\* the batch of a key: column c of the batch is the standard column with
\* the initial the key has at c
ShuffledContent(key) ==
    LET from(c) == CHOOSE j \in 1..Len(DmsCols) : Initial(DmsCols[j]) = key[5 + c]
    IN  [cols |-> [c \in 1..4 |-> DmsCols[from(c)]],
         rows |-> [r \in 1..Len(ShuffledRows) |-> [c \in 1..4 |-> ShuffledRows[r][from(c)]]]]

\* the Parquet payload of each object
Content(key) ==
    CASE key \in BatchKeys ->
            [cols |-> DmsCols, rows |-> [i \in 1..BatchHeight(key) |-> BatchRow(i)]]
      [] IsShuffledKey(key) -> ShuffledContent(key)
      [] key = Key_t1_cdc ->
            [cols |-> DmsCols, rows |-> <<Row(<<"D">>, <<"1">>, <<"O", "'", "N">>)>>]
      [] key = Key_t2_load ->
            [cols |-> DmsCols, rows |-> <<Row(<<>>, <<"1">>, <<"a">>)>>]
      [] key = Key_t2_load_extra ->
            [cols |-> DmsCols \o <<"extra">>,
             rows |-> <<Row(<<>>, <<"1">>, <<"a">>) \o <<StrV(<<"z">>)>>>>]
      [] key = Key_t2_load_bare ->
            [cols |-> <<"id", "name">>, rows |-> <<<<IntV(<<"1">>), StrV(<<"a">>)>>>>]
      [] key = Key_t2_cdc ->
            [cols |-> DmsCols,
             rows |-> <<Row(<<"I">>, <<"2">>, <<"b">>),
                        Row(<<"U">>, <<"1">>, <<"a", "2">>),
                        Row(<<"D">>, <<"2">>, <<"b">>)>>]
      [] key = Key_t3_load ->
            [cols |-> DmsCols,
             rows |-> <<Row(<<>>, <<"1">>, <<"a">>),
                        Row(<<>>, <<"2">>, <<"b">>),
                        Row(<<>>, <<"3">>, <<"c">>)>>]
      [] key = Key_t3_cdc ->
            [cols |-> DmsCols,
             rows |-> <<Row(<<"D">>, <<"3">>, <<"c">>),
                        Row(<<"D">>, <<"7">>, <<"x">>),
                        Row(<<"I">>, <<"1">>, <<"e">>),
                        Row(<<"I">>, <<"3">>, <<"d">>)>>]
      [] OTHER ->
            [cols |-> DmsCols, rows |-> <<Row(<<>>, <<"1">>, <<"O", "'", "N">>)>>]

\* every order in which a listing can return a set of objects
Orders(S) == {o \in [1..Cardinality(S) -> S] : \A i, j \in 1..Cardinality(S) : o[i] = o[j] => i = j}

PageSize == 1

RECURSIVE Paginate(_)
\* the pages of a listing: PageSize objects each, the last one without a token
Paginate(listing) ==
    IF Len(listing) <= PageSize THEN <<listing>>
    ELSE <<SubSeq(listing, 1, PageSize)>> \o Paginate(SubSeq(listing, PageSize + 1, Len(listing)))

(***************************************************************************)
(* Artifact locator (S3OperatorImpl)                                       *)
(***************************************************************************)
\* str::contains("LOAD")
ContainsLOAD(s) ==
    \E i \in 1..(Len(s) - 3) : SubSeq(s, i, i + 3) = <<"L", "O", "A", "D">>

\* S3ParquetFile::is_load_file
is_load_file(file_name) == ContainsLOAD(file_name)

\* a filter that also takes an object modified exactly at the start date
Qualifies_FromStart(object, start, stop) ==
    IF stop # NoDate
    THEN (object.last_modified >= start /\ object.last_modified < stop) \/ ContainsLOAD(object.key)
    ELSE object.last_modified >= start \/ ContainsLOAD(object.key)

\* the filter of get_files_from_s3_based_on_date on one object
Qualifies(object, start, stop) ==
    IF stop # NoDate
    THEN (object.last_modified > start /\ object.last_modified < stop) \/ ContainsLOAD(object.key)
    ELSE object.last_modified > start \/ ContainsLOAD(object.key)

RECURSIVE FilterPage(_, _, _)
FilterPage(contents, start, stop) ==
    IF contents = <<>> THEN <<>>
    ELSE (IF Qualifies(Head(contents), start, stop) THEN <<Head(contents).key>> ELSE <<>>)
         \o FilterPage(Tail(contents), start, stop)

RECURSIVE ListLoop(_, _, _, _, _)
\* the loop of get_files_from_s3_based_on_date: next_token is the index of
\* the page the token names; the last page carries no token
ListLoop(pages, next_token, files, start, stop) ==
    LET response == pages[next_token]
        files2 == files \o FilterPage(response, start, stop)
    IN  IF next_token = Len(pages) THEN files2
        ELSE ListLoop(pages, next_token + 1, files2, start, stop)

get_files_from_s3_based_on_date(pages, start, stop) == ListLoop(pages, 1, <<>>, start, stop)

\* Vec::rotate_right(k)
rotate_right(s, k) ==
    IF Len(s) = 0 THEN s
    ELSE [i \in 1..Len(s) |-> s[((i - 1 - k + Len(s)) % Len(s)) + 1]]

\* the number of load files of a list
LoadFilesCount(files) == Cardinality({i \in 1..Len(files) : is_load_file(files[i])})

\* get_list_of_parquet_files_from_s3, DateAware arm, once the listing returned
DateAwarePlan(pages, start, stop) ==
    LET files_list == get_files_from_s3_based_on_date(pages, start, stop)
    IN  rotate_right(files_list, LoadFilesCount(files_list))

(***************************************************************************)
(* Target SQL operator (PostgresOperatorImpl): the text of each statement  *)
(***************************************************************************)
Height(df) == Len(df.rows)
HasColumn(df, name) == \E i \in 1..Len(df.cols) : df.cols[i] = name
ColumnIndex(df, name) == CHOOSE i \in 1..Len(df.cols) : df.cols[i] = name

\* the subsequence of s at the positions that satisfy keep
RECURSIVE Retain(_, _, _)
Retain(s, names, drop) ==
    IF s = <<>> THEN <<>>
    ELSE (IF Head(names) \in drop THEN <<>> ELSE <<Head(s)>>)
         \o Retain(Tail(s), Tail(names), drop)

\* a bulk insert that drops Op only
DropDmsColumns_KeepTimestamp(df) ==
    [cols |-> Retain(df.cols, df.cols, {"Op"}),
     rows |-> [r \in 1..Len(df.rows) |-> Retain(df.rows[r], df.cols, {"Op"})]]

\* DataFrame::drop_in_place for both DMS columns
DropDmsColumns(df) ==
    [cols |-> Retain(df.cols, df.cols, {"Op", "_dms_ingestion_timestamp"}),
     rows |-> [r \in 1..Len(df.rows) |->
                  Retain(df.rows[r], df.cols, {"Op", "_dms_ingestion_timestamp"})]]

Min(a, b) == IF a < b THEN a ELSE b

\* an environment variable: not set, or set to a text that parses to value,
\* or set to a text that does not parse as the type its reader asks for
Unset == [kind |-> "unset", value |-> 0]
BadText == [kind |-> "bad", value |-> 0]
\* DELAYABLE_CONFIG is not set
NoList == [kind |-> "unset", value |-> <<>>]
Text(value) == [kind |-> "set", value |-> value]
\* the environment of a process started without any tuning variable
NoEnv == [DELAYABLE_CONFIG |-> NoList, ROWS_PER_DF |-> Unset, DELAY_INSERT |-> Unset]

\* InsertDataframePayload::as_key: the fingerprint <schema>.<table>
as_key(payload) == <<"public", ".", payload>>

\* INSERT_DELAYABLES: DELAYABLE_CONFIG split at its commas, one empty item
\* when the variable is not set
INSERT_DELAYABLES ==
    IF env.DELAYABLE_CONFIG.kind = "set" THEN env.DELAYABLE_CONFIG.value ELSE <<<<>>>>

\* Vec::contains
Contains(list, item) == \E i \in 1..Len(list) : list[i] = item

\* rows_per_df and should_delay_insert: the parse::<..>().unwrap() of a
\* variable that is read only for a throttled table
EnvParses(payload) ==
    Contains(INSERT_DELAYABLES, as_key(payload)) =>
        env.ROWS_PER_DF.kind # "bad" /\ env.DELAY_INSERT.kind # "bad"

\* rows_per_df: the chunk size of the bulk insert; RowsPerDf stands for the
\* default of 10_000
rows_per_df(payload) ==
    IF ~Contains(INSERT_DELAYABLES, as_key(payload)) THEN RowsPerDf
    ELSE IF env.ROWS_PER_DF.kind = "set" THEN env.ROWS_PER_DF.value ELSE RowsPerDf

\* a throttle that reads DELAY_INSERT for every table
should_delay_insert_Everywhere(payload) ==
    env.DELAY_INSERT.kind = "set" /\ env.DELAY_INSERT.value = 1

\* should_delay_insert: the loop sleeps after a chunk (1 stands for "true")
should_delay_insert(payload) ==
    IF ~Contains(INSERT_DELAYABLES, as_key(payload)) THEN FALSE
    ELSE env.DELAY_INSERT.kind = "set" /\ env.DELAY_INSERT.value = 1

\* a slice that always starts at the head of the batch
Slice_FromHead(rows, offset, length) == SubSeq(rows, 1, Min(length, Len(rows)))

\* df.slice(offset, length): the rows from offset on, at most length of them
Slice(rows, offset, length) == SubSeq(rows, offset + 1, Min(offset + length, Len(rows)))

\* insert_dataframe_in_target_db: the query of the chunk that starts at offset
InsertChunkQuery(tbl, df, offset) ==
    LET d == DropDmsColumns(df)
        fields == d.cols
        df_chunk == Slice(d.rows, offset, rows_per_df(tbl))
        values == [r \in 1..Len(df_chunk) |->
                      [c \in 1..Len(df_chunk[r]) |-> preprocess_value(df_chunk[r][c])]]
    IN  <<InsertFrag(tbl, fields, values)>>

\* str::split(',') of the joined primary key: an empty key gives one empty name
SplitPrimaryKey(primary_key) == IF primary_key = <<>> THEN <<"">> ELSE primary_key

\* upsert_dataframe_in_target_db: the row's Op column holds a 'D'
IsDeleteRow(df, row) ==
    \E i \in 1..Len(df.cols) :
        df.cols[i] = "Op" /\ ContainsChar(AnyValueToString(df.rows[row][i]), "D")

\* upsert_dataframe_in_target_db: df.column(key).unwrap() succeeds for every key
PkColumnsPresent(df, primary_key) ==
    \A i \in 1..Len(SplitPrimaryKey(primary_key)) : HasColumn(df, SplitPrimaryKey(primary_key)[i])

\* upsert_dataframe_in_target_db: the DELETE of a row
DeleteQuery(tbl, df, row, primary_key) ==
    LET keys == SplitPrimaryKey(primary_key)
        pk_vector == [i \in 1..Len(keys) |->
                         AnyValueToString(df.rows[row][ColumnIndex(df, keys[i])])]
        value == JoinSeq(pk_vector, <<",">>)
    IN  <<DeleteRows(tbl, primary_key, ReplaceChar(value, "\"", <<"'">>))>>

\* upsert_dataframe_in_target_db: row_values.get(index).unwrap() in the SET list
SetListPresent(df) ==
    Len(Retain(df.cols, df.cols, {"Op", "_dms_ingestion_timestamp"})) + 2 <= Len(df.cols)

\* an upsert that adds the ON CONFLICT clause to every row
UpsertQuery_AlwaysOnConflict(tbl, df, row, primary_key) ==
    LET column_names == Retain(df.cols, df.cols, {"Op", "_dms_ingestion_timestamp"})
        row_values == SubSeq(df.rows[row], 3, Len(df.rows[row]))
        values_of_row == [i \in 1..Len(row_values) |-> displayed(row_values[i])]
    IN  <<InsertFrag(tbl, column_names, <<values_of_row>>),
          OnConflictFrag(primary_key,
              [i \in 1..Len(column_names) |-> <<column_names[i], displayed(row_values[i])>>])>>

\* upsert_dataframe_in_target_db: the INSERT of a row that is not a delete
UpsertQuery(tbl, df, row, primary_key) ==
    LET column_names == Retain(df.cols, df.cols, {"Op", "_dms_ingestion_timestamp"})
        all_values == df.rows[row]
        is_update_op == ContainsChar(AnyValueToString(all_values[1]), "U")
        row_values == SubSeq(all_values, 3, Len(all_values))
        values_of_row == [i \in 1..Len(row_values) |-> displayed(row_values[i])]
        on_conflict_strategy ==
            IF ~is_update_op THEN <<>>
            ELSE <<OnConflictFrag(primary_key,
                       [i \in 1..Len(column_names) |->
                           <<column_names[i], displayed(row_values[i])>>])>>
    IN  <<InsertFrag(tbl, column_names, <<values_of_row>>), SemiFrag>> \o on_conflict_strategy

\* the query upsert_dataframe_in_target_db sends for a row
RowQuery(tbl, df, row, primary_key) ==
    IF IsDeleteRow(df, row) THEN DeleteQuery(tbl, df, row, primary_key)
    ELSE UpsertQuery(tbl, df, row, primary_key)

\* the operation code of a CDC row, for the record of what was applied
RowOp(df, row) ==
    IF IsDeleteRow(df, row) THEN "D"
    ELSE IF ContainsChar(AnyValueToString(df.rows[row][1]), "U") THEN "U"
    ELSE "I"

(***************************************************************************)
(* State                                                                   *)
(***************************************************************************)
TableNames == Range(SourceTables)
Modes == {"DateAware", "AbsolutePath"}
\* the key given in AbsolutePath mode
AbsolutePathKey == Key_t1_load

\* None: no continuation token
NoToken == 0
\* no listing is in progress
NoLister == [pc |-> "idle", objects |-> {}, prefix |-> <<>>, pages |-> <<>>,
             next_token |-> NoToken, sent |-> <<>>, files |-> <<>>, plan |-> <<>>]

\* no literal has been built yet
NoRender == [done |-> {}, load |-> <<>>, insert |-> <<>>, update |-> <<>>,
             set |-> <<>>, delete |-> <<>>, geometry |-> FALSE]

NewDriver == [pc |-> "pending", columns |-> <<>>, pk |-> <<>>, plan |-> <<>>, idx |-> 0, off |-> 0]
NoLast == [kind |-> "none", file |-> 0, row |-> 0, pre |-> {}, ok |-> TRUE, fault |-> FALSE]

\* a snapshot that sends the bulk insert to the source operator
OperatorOf_InsertOnSource(method) ==
    IF method \in {"get_tables_in_schema", "get_table_columns", "get_primary_key",
                   "insert_dataframe_in_target_db"}
    THEN "source" ELSE "target"
\* snapshot: the operator each method is invoked on, source_postgres_operator
\* or target_postgres_operator
OperatorOf(method) ==
    IF method \in {"get_tables_in_schema", "get_table_columns", "get_primary_key"}
    THEN "source" ELSE "target"
\* the database behind the operator a method is invoked on
Db(method) == IF OperatorOf(method) = "source" THEN source ELSE target
\* the method is invoked
Called(method) == calls' = calls \cup {<<OperatorOf(method), method>>}
\* a statement of the method leaves table t as tbl
Stored(method, t, tbl) ==
    /\ target' = IF OperatorOf(method) = "target" THEN [target EXCEPT ![t] = tbl] ELSE target
    /\ source' = IF OperatorOf(method) = "source" THEN [source EXCEPT ![t] = tbl] ELSE source
\* get_tables_in_schema: the tables of the schema
TablesIn(db) == SelectSeq(SourceTables, LAMBDA t : db[t].exists)

Init ==
    /\ args \in [only_datadiff : BOOLEAN, only_snapshot : BOOLEAN]
    /\ only_datadiff = FALSE
    /\ only_snapshot = FALSE
    /\ mode \in Modes
    /\ start_date \in StartDates
    /\ stop_date \in StopDates
    /\ mode = "AbsolutePath" => (start_date # BadDate /\ stop_date = NoDate)
    /\ num_of_buffers \in 1..MaxBuffers
    /\ main_pc = "args"
    /\ snap_pc = "idle"
    /\ table_list = <<>>
    /\ driver = [t \in TableNames |-> NewDriver]
    /\ target = [t \in TableNames |-> NoTable]
    /\ issued = [t \in TableNames |-> <<>>]
    /\ last = [t \in TableNames |-> NoLast]
    /\ target_schema = FALSE
    /\ panicked = FALSE
    /\ cell = <<>>
    /\ rendered = NoRender
    /\ source = SourceDb
    /\ calls = {}
    /\ lister = NoLister
    /\ env = NoEnv
    /\ max_connections = MaxConnections

MainVars == <<args, only_datadiff, only_snapshot, mode, start_date, stop_date,
              num_of_buffers, main_pc, snap_pc, table_list, driver, target, issued,
              last, target_schema, panicked, source, calls, lister, env,
              max_connections>>
Config == <<args, only_datadiff, only_snapshot, mode, start_date, stop_date, num_of_buffers,
            cell, rendered, lister, env, max_connections>>
Data == <<target, issued, last, source>>

Listed(t) == \E i \in 1..Len(table_list) : table_list[i] = t
Position(t) == CHOOSE i \in 1..Len(table_list) : table_list[i] = t

\* the driver's future has been polled and has not completed
Active(t) == driver[t].pc \notin {"pending", "done", "failed"}
ActiveCount == Cardinality({t \in TableNames : Listed(t) /\ Active(t)})

\* a panic inside a driver unwinds for_each, snapshot and main
Panic(t) ==
    /\ driver' = [driver EXCEPT ![t].pc = "failed"]
    /\ panicked' = TRUE

(***************************************************************************)
(* main and CDCOperator::snapshot                                          *)
(***************************************************************************)
\* a constructor that accepts every combination of the flags
PayloadRefused_Never(a) == FALSE

\* CDCOperatorPayload::new: if only_datadiff && only_snapshot { panic!(..) }
PayloadRefused(a) == a.only_datadiff /\ a.only_snapshot

\* main: CDCOperatorPayload::new builds the payload or panics
CDCOperatorPayloadNew ==
    /\ UNCHANGED calls
    /\ ~panicked /\ main_pc = "args"
    /\ IF PayloadRefused(args)
       THEN /\ panicked' = TRUE
            /\ UNCHANGED <<only_datadiff, only_snapshot, main_pc>>
       ELSE /\ only_datadiff' = args.only_datadiff
            /\ only_snapshot' = args.only_snapshot
            /\ main_pc' = "start"
            /\ panicked' = panicked
    /\ UNCHANGED <<args, mode, start_date, stop_date, num_of_buffers, Data,
                   snap_pc, table_list, driver, target_schema, cell, rendered, lister,
                   env, max_connections>>

\* main: snapshot is entered unless only_datadiff
MainStart ==
    /\ UNCHANGED calls
    /\ ~panicked /\ main_pc = "start"
    /\ IF only_datadiff
       THEN main_pc' = "validate" /\ snap_pc' = snap_pc
       ELSE main_pc' = "snapshot" /\ snap_pc' = "create_schema"
    /\ UNCHANGED <<Config, Data, table_list, driver, target_schema, panicked>>

SchemaName == "public"
\* the statement create_schema executes
CreateSchemaResult == ExecuteSchema(target_schema, <<TableQuery_CreateSchema(SchemaName)>>)

\* snapshot: let _ = create_schema(..).await
CreateSchema ==
    /\ Called("create_schema")
    /\ ~panicked /\ snap_pc = "create_schema"
    /\ CreateSchemaResult.ok
    /\ target_schema' = CreateSchemaResult.exists
    /\ snap_pc' = "get_tables"
    /\ UNCHANGED <<Config, Data, main_pc, table_list, driver, panicked>>

\* create_schema: pool.get() fails, the Err is dropped by let _
CreateSchemaNoConnection ==
    /\ Called("create_schema")
    /\ ~panicked /\ snap_pc = "create_schema"
    /\ snap_pc' = "get_tables"
    /\ UNCHANGED <<Config, Data, main_pc, table_list, driver, target_schema, panicked>>

\* create_schema: execute(..).expect("Failed to create schema")
CreateSchemaPanic ==
    /\ Called("create_schema")
    /\ ~panicked /\ snap_pc = "create_schema"
    /\ panicked' = TRUE
    /\ UNCHANGED <<Config, Data, main_pc, snap_pc, table_list, driver, target_schema>>

\* snapshot: get_tables_in_schema(..).await.unwrap(), then the futures are
\* built and handed to buffer_unordered(num_of_buffers)
GetTablesInSchema ==
    /\ Called("get_tables_in_schema")
    /\ ~panicked /\ snap_pc = "get_tables"
    /\ \E n \in 0..MaxTables :
          table_list' = SubSeq(TablesIn(Db("get_tables_in_schema")), 1,
                               Min(n, Len(TablesIn(Db("get_tables_in_schema")))))
    /\ snap_pc' = "running"
    /\ UNCHANGED <<Config, Data, main_pc, driver, target_schema, panicked>>

GetTablesInSchemaPanic ==
    /\ Called("get_tables_in_schema")
    /\ ~panicked /\ snap_pc = "get_tables"
    /\ panicked' = TRUE
    /\ UNCHANGED <<Config, Data, main_pc, snap_pc, table_list, driver, target_schema>>

\* a scheduler that polls every future at once
HasRoom_Unbounded == TRUE

\* buffer_unordered: room for one more future while fewer than n are in progress
HasRoom == ActiveCount < num_of_buffers

\* buffer_unordered polls the next future of the stream for the first time
StartDriver(t) ==
    /\ UNCHANGED calls
    /\ ~panicked /\ snap_pc = "running"
    /\ Listed(t) /\ driver[t].pc = "pending"
    /\ \A i \in 1..(Position(t) - 1) : driver[table_list[i]].pc # "pending"
    /\ HasRoom
    /\ driver' = [driver EXCEPT ![t].pc = "columns"]
    /\ UNCHANGED <<Config, Data, main_pc, snap_pc, table_list, target_schema, panicked>>

\* a scheduler that stops as soon as every future has been started
StreamExhausted_AllStarted == \A t \in TableNames : Listed(t) => driver[t].pc # "pending"

\* for_each completes when the buffered stream is exhausted
StreamExhausted == \A t \in TableNames : Listed(t) => driver[t].pc = "done"

\* a main that validates after every snapshot
AfterSnapshot_AlwaysValidate == "validate"

\* main: if only_snapshot { return Ok(()) }, else validate
AfterSnapshot == IF only_snapshot THEN "exit" ELSE "validate"

\* snapshot returns; main goes on to validate unless only_snapshot
SnapshotReturn ==
    /\ UNCHANGED calls
    /\ ~panicked /\ snap_pc = "running"
    /\ StreamExhausted
    /\ snap_pc' = "returned"
    /\ main_pc' = AfterSnapshot
    /\ UNCHANGED <<Config, Data, table_list, driver, target_schema, panicked>>

\* main: CDCOperator::validate, then the pools are closed
Validate ==
    /\ UNCHANGED calls
    /\ ~panicked /\ main_pc = "validate"
    /\ main_pc' = "exit"
    /\ UNCHANGED <<Config, Data, snap_pc, table_list, driver, target_schema, panicked>>

\* validate: panic!("Failed to run pgdatadiff")
ValidatePanic ==
    /\ UNCHANGED calls
    /\ ~panicked /\ main_pc = "validate"
    /\ panicked' = TRUE
    /\ UNCHANGED <<Config, Data, main_pc, snap_pc, table_list, driver, target_schema>>

(***************************************************************************)
(* The per-table future of CDCOperator::snapshot                           *)
(***************************************************************************)
Running(t, pc) == ~panicked /\ snap_pc = "running" /\ Listed(t) /\ driver[t].pc = pc

DriverFrame == <<Config, main_pc, snap_pc, table_list, target_schema>>

\* get_table_columns(..).await.unwrap()
GetTableColumns(t) ==
    /\ Called("get_table_columns")
    /\ Running(t, "columns")
    /\ driver' = [driver EXCEPT ![t].pc = "pk", ![t].columns = Db("get_table_columns")[t].cols]
    /\ UNCHANGED <<DriverFrame, Data, panicked>>

GetTableColumnsPanic(t) ==
    /\ Called("get_table_columns")
    /\ Running(t, "columns")
    /\ Panic(t)
    /\ UNCHANGED <<DriverFrame, Data>>

\* get_primary_key(..).await.unwrap()
GetPrimaryKey(t) ==
    /\ Called("get_primary_key")
    /\ Running(t, "pk")
    /\ driver' = [driver EXCEPT ![t].pc = "create", ![t].pk = Db("get_primary_key")[t].pk]
    /\ UNCHANGED <<DriverFrame, Data, panicked>>

\* get_primary_key: the query fails, unwrap_or(vec![]) gives an empty key
GetPrimaryKeyQueryError(t) ==
    /\ Called("get_primary_key")
    /\ Running(t, "pk")
    /\ driver' = [driver EXCEPT ![t].pc = "create", ![t].pk = <<>>]
    /\ UNCHANGED <<DriverFrame, Data, panicked>>

\* get_primary_key: pool.get() fails, the Err is unwrapped
GetPrimaryKeyPanic(t) ==
    /\ Called("get_primary_key")
    /\ Running(t, "pk")
    /\ Panic(t)
    /\ UNCHANGED <<DriverFrame, Data>>

\* the statement create_table executes
CreateTableResult(t) ==
    IF OperatorOf("create_table") = "source" \/ target_schema
    THEN Execute(Db("create_table")[t], <<CreateTable(t, driver[t].columns, driver[t].pk)>>)
    ELSE Failed(Db("create_table")[t])

\* snapshot, after create_table: DateAware needs a start date
StartDateMissing == mode = "DateAware" /\ start_date = NoDate

\* let _ = create_table(..).await, then the start_date check
CreateTableStep(t) ==
    /\ Called("create_table")
    /\ Running(t, "create")
    /\ CreateTableResult(t).ok
    /\ Stored("create_table", t, CreateTableResult(t).tbl)
    /\ issued' = [issued EXCEPT ![t] = Append(@, [file |-> 0, row |-> 0, call |-> "create_table", kind |-> "CREATE", cols |-> <<>>, conflict |-> FALSE, conns |-> 1, tuples |-> 0])]
    /\ IF StartDateMissing
       THEN Panic(t)
       ELSE driver' = [driver EXCEPT ![t].pc = "list"] /\ panicked' = panicked
    /\ UNCHANGED <<DriverFrame, last>>

\* create_table: pool.get() fails, the Err is dropped by let _
CreateTableNoConnection(t) ==
    /\ Called("create_table")
    /\ Running(t, "create")
    /\ IF StartDateMissing
       THEN Panic(t)
       ELSE driver' = [driver EXCEPT ![t].pc = "list"] /\ panicked' = panicked
    /\ UNCHANGED <<DriverFrame, Data>>

\* create_table: execute(..).expect("Failed to create table")
CreateTablePanic(t) ==
    /\ Called("create_table")
    /\ Running(t, "create")
    /\ issued' = [issued EXCEPT ![t] = Append(@, [file |-> 0, row |-> 0, call |-> "create_table", kind |-> "CREATE", cols |-> <<>>, conflict |-> FALSE, conns |-> 1, tuples |-> 0])]
    /\ Panic(t)
    /\ UNCHANGED <<DriverFrame, target, last, source>>

\* the for loop over parquet_files: an empty plan completes the future
EnterLoop(d, plan) ==
    IF plan = <<>> THEN [d EXCEPT !.pc = "done", !.plan = plan]
    ELSE [d EXCEPT !.pc = "read", !.plan = plan, !.idx = 1, !.off = 0]

\* the loop moves to the next file, or the future completes
NextFile(d) ==
    IF d.idx < Len(d.plan) THEN [d EXCEPT !.pc = "read", !.idx = d.idx + 1, !.off = 0]
    ELSE [d EXCEPT !.pc = "done", !.off = 0]

\* get_list_of_parquet_files_from_s3: both date texts parse (the `?` at 120-140)
DatesParse == start_date # BadDate /\ stop_date # BadDate

\* get_list_of_parquet_files_from_s3(..).await
ListParquetFiles(t) ==
    /\ UNCHANGED calls
    /\ Running(t, "list")
    /\ mode = "DateAware" => DatesParse
    /\ IF mode = "DateAware"
       THEN \E b \in Buckets(t) : \E listing \in Orders(b) :
               driver' = [driver EXCEPT ![t] =
                   EnterLoop(driver[t], DateAwarePlan(Paginate(listing), start_date, stop_date))]
       ELSE driver' = [driver EXCEPT ![t] = EnterLoop(driver[t], <<AbsolutePathKey>>)]
    /\ UNCHANGED <<DriverFrame, Data, panicked>>

\* a handler that goes on with the files collected before the failure
ParquetFilesOrEmpty_KeepCollected(ok, files) == files

\* get_list_of_parquet_files_from_s3(..).await.unwrap_or_else(|_| Vec::new())
ParquetFilesOrEmpty(ok, files) == IF ok THEN files ELSE <<>>

\* the files get_files_from_s3_based_on_date has pushed when the request
\* for page k + 1 fails
CollectedBefore(pages, k, start, stop) ==
    IF k = 0 THEN <<>> ELSE get_files_from_s3_based_on_date(SubSeq(pages, 1, k), start, stop)

\* a request of the listing fails: `?` returns Err and the files collected
\* so far are dropped
ListParquetFilesError(t) ==
    /\ UNCHANGED calls
    /\ Running(t, "list")
    /\ mode = "DateAware" /\ DatesParse
    /\ \E b \in Buckets(t) : \E listing \in Orders(b) :
          \E k \in 0..(Len(Paginate(listing)) - 1) :
             driver' = [driver EXCEPT ![t] =
                 EnterLoop(driver[t],
                     ParquetFilesOrEmpty(FALSE,
                         CollectedBefore(Paginate(listing), k, start_date, stop_date)))]
    /\ UNCHANGED <<DriverFrame, Data, panicked>>

\* a date text does not parse: `?` returns Err before any request is sent,
\* and unwrap_or_else gives an empty Vec
ListParquetFilesBadDate(t) ==
    /\ UNCHANGED calls
    /\ Running(t, "list")
    /\ mode = "DateAware" /\ ~DatesParse
    /\ driver' = [driver EXCEPT ![t] = EnterLoop(driver[t], <<>>)]
    /\ UNCHANGED <<DriverFrame, Data, panicked>>

CurrentFile(t) == driver[t].plan[driver[t].idx]
CurrentDf(t) == Content(CurrentFile(t))

\* a drift check that accepts every batch
has_schema_diff_Never(df, source_table_columns) == FALSE

\* snapshot: has_schema_diff
has_schema_diff(df, source_table_columns) ==
    \E i \in 1..Len(df.cols) :
        /\ df.cols[i] # "Op" /\ df.cols[i] # "_dms_ingestion_timestamp"
        /\ df.cols[i] \notin Range(source_table_columns)

\* insert_dataframe_in_target_db: both drop_in_place(..).expect(..) succeed
HasDmsColumns(df) == HasColumn(df, "Op") /\ HasColumn(df, "_dms_ingestion_timestamp")

\* snapshot: the method the current file is handed to
DataframeMethod(t) ==
    IF is_load_file(CurrentFile(t)) THEN "insert_dataframe_in_target_db"
    ELSE "upsert_dataframe_in_target_db"

\* what follows create_dataframe_from_parquet_file up to the first statement
AfterRead(t) ==
    LET df == CurrentDf(t)
    IN  IF is_load_file(CurrentFile(t))
        THEN IF has_schema_diff(df, driver[t].columns) THEN "panic"
             ELSE IF ~HasDmsColumns(df) THEN "insert"
             ELSE IF ~EnvParses(t) THEN "panic"
             ELSE IF Height(df) = 0 THEN "next" ELSE "insert"
        ELSE IF Height(df) = 0 THEN "next" ELSE "upsert"

\* create_dataframe_from_parquet_file(..).await, the dispatch on is_load_file
ReadFile(t) ==
    /\ Running(t, "read")
    /\ IF AfterRead(t) = "panic" THEN Panic(t) /\ UNCHANGED calls
       ELSE /\ Called(DataframeMethod(t))
            /\ panicked' = panicked
            /\ driver' = [driver EXCEPT ![t] =
                   IF AfterRead(t) = "next" THEN NextFile(driver[t])
                   ELSE [driver[t] EXCEPT !.pc = AfterRead(t), !.off = 0]]
    /\ UNCHANGED <<DriverFrame, Data>>

\* create_dataframe_from_parquet_file: the fetch or the decoder fails
ReadFilePanic(t) ==
    /\ UNCHANGED calls
    /\ Running(t, "read")
    /\ Panic(t)
    /\ UNCHANGED <<DriverFrame, Data>>

\* the pooled connections a driver holds while a statement runs: the bulk
\* insert and the DELETE of a D row run on the client taken at the head of
\* the function; the INSERT of an I or U row runs on a second client taken
\* inside the row loop while the first is still held
ClientsDuring(pc, k) == IF pc = "upsert" /\ k # "DELETE" THEN 2 ELSE 1

\* the pooled connections a driver holds at its position: the client of
\* insert_dataframe_in_target_db and upsert_dataframe_in_target_db lives from
\* pool.get() to the return of the function
ClientsHeld(t) == IF driver[t].pc \in {"insert", "sleep", "upsert"} THEN 1 ELSE 0

\* the record of one statement: what was sent and what the database did
Applied(t, kind, query, res, fault) ==
    /\ issued' = [issued EXCEPT ![t] = Append(@,
            [file |-> driver[t].idx,
             row |-> driver[t].off + 1,
             call |-> IF driver[t].pc = "insert" THEN "insert_dataframe" ELSE "upsert_dataframe",
             kind |-> query[1].k,
             cols |-> query[1].cols,
             conflict |-> \E i \in 1..Len(query) : query[i].k = "ON CONFLICT",
             tuples |-> Len(query[1].vals),
             conns |-> ClientsDuring(driver[t].pc, query[1].k)])]
    /\ last' = [last EXCEPT ![t] =
            [kind |-> kind, file |-> driver[t].idx, row |-> driver[t].off + 1,
             pre |-> Db(DataframeMethod(t))[t].rows, ok |-> res.ok /\ ~fault, fault |-> fault]]
    /\ Stored(DataframeMethod(t), t, IF fault THEN Db(DataframeMethod(t))[t] ELSE res.tbl)

\* a loop that logs the error of a chunk and goes on
InsertFails_Never(res) == FALSE

\* insert_dataframe_in_target_db: match insert_result takes the Err arm
InsertFails(res) == ~res.ok

\* insert_dataframe_in_target_db: the test of the while loop after
\* offset += rows_per_df
AfterChunk(t, d) ==
    IF d.off < Height(CurrentDf(t)) THEN [d EXCEPT !.pc = "insert"] ELSE NextFile(d)

\* insert_dataframe_in_target_db: one chunk is built, executed and awaited
InsertChunk(t) ==
    /\ UNCHANGED calls
    /\ Running(t, "insert")
    /\ HasDmsColumns(CurrentDf(t))
    /\ LET query == InsertChunkQuery(t, CurrentDf(t), driver[t].off)
           res == Execute(Db(DataframeMethod(t))[t], query)
           advanced == [driver[t] EXCEPT !.off = driver[t].off + rows_per_df(t)]
       IN  /\ Applied(t, "load", query, res, FALSE)
           /\ IF InsertFails(res)
              THEN Panic(t)
              ELSE /\ panicked' = panicked
                   /\ driver' = [driver EXCEPT ![t] =
                          IF should_delay_insert(t)
                          THEN [advanced EXCEPT !.pc = "sleep"]
                          ELSE AfterChunk(t, advanced)]
    /\ UNCHANGED DriverFrame

\* insert_dataframe_in_target_db: tokio::time::sleep(insert_delay).await
\* after a chunk, the last one included
SleepAfterChunk(t) ==
    /\ UNCHANGED calls
    /\ Running(t, "sleep")
    /\ driver' = [driver EXCEPT ![t] = AfterChunk(t, driver[t])]
    /\ UNCHANGED <<DriverFrame, Data, panicked>>

\* insert_dataframe_in_target_db: the connection fails under the statement
InsertChunkFault(t) ==
    /\ UNCHANGED calls
    /\ Running(t, "insert")
    /\ HasDmsColumns(CurrentDf(t))
    /\ LET query == InsertChunkQuery(t, CurrentDf(t), driver[t].off)
       IN  Applied(t, "load", query, Failed(Db(DataframeMethod(t))[t]), TRUE)
    /\ Panic(t)
    /\ UNCHANGED DriverFrame

\* insert_dataframe_in_target_db: drop_in_place("Op").expect(..) or
\* drop_in_place("_dms_ingestion_timestamp").expect(..) panics
InsertDropPanic(t) ==
    /\ UNCHANGED calls
    /\ Running(t, "insert")
    /\ ~HasDmsColumns(CurrentDf(t))
    /\ Panic(t)
    /\ UNCHANGED <<DriverFrame, Data>>

\* upsert_dataframe_in_target_db: the unwraps of one row succeed
RowBuilds(t) ==
    /\ PkColumnsPresent(CurrentDf(t), driver[t].pk)
    /\ IsDeleteRow(CurrentDf(t), driver[t].off + 1) \/ SetListPresent(CurrentDf(t))

\* upsert_dataframe_in_target_db: one row is built, executed and awaited
UpsertRow(t) ==
    /\ UNCHANGED calls
    /\ Running(t, "upsert")
    /\ RowBuilds(t)
    /\ LET df == CurrentDf(t)
           row == driver[t].off + 1
           query == RowQuery(t, df, row, driver[t].pk)
           res == Execute(Db(DataframeMethod(t))[t], query)
       IN  /\ Applied(t, RowOp(df, row), query, res, FALSE)
           /\ IF res.ok
              THEN /\ panicked' = panicked
                   /\ driver' = [driver EXCEPT ![t] =
                          IF row < Height(df) THEN [driver[t] EXCEPT !.off = row]
                          ELSE NextFile(driver[t])]
              ELSE Panic(t)
    /\ UNCHANGED DriverFrame

\* upsert_dataframe_in_target_db: an unwrap panics while the row is built
UpsertRowUnwrapPanic(t) ==
    /\ UNCHANGED calls
    /\ Running(t, "upsert")
    /\ ~RowBuilds(t)
    /\ Panic(t)
    /\ UNCHANGED <<DriverFrame, Data>>

\* upsert_dataframe_in_target_db: the connection fails under the statement
UpsertRowFault(t) ==
    /\ UNCHANGED calls
    /\ Running(t, "upsert")
    /\ RowBuilds(t)
    /\ LET df == CurrentDf(t)
           row == driver[t].off + 1
       IN  Applied(t, RowOp(df, row), RowQuery(t, df, row, driver[t].pk), Failed(Db(DataframeMethod(t))[t]), TRUE)
    /\ Panic(t)
    /\ UNCHANGED DriverFrame

Next ==
    \/ CDCOperatorPayloadNew
    \/ MainStart
    \/ CreateSchema
    \/ CreateSchemaNoConnection
    \/ CreateSchemaPanic
    \/ GetTablesInSchema
    \/ GetTablesInSchemaPanic
    \/ SnapshotReturn
    \/ Validate
    \/ ValidatePanic
    \/ \E t \in TableNames : StartDriver(t)
    \/ \E t \in TableNames : GetTableColumns(t)
    \/ \E t \in TableNames : GetTableColumnsPanic(t)
    \/ \E t \in TableNames : GetPrimaryKey(t)
    \/ \E t \in TableNames : GetPrimaryKeyQueryError(t)
    \/ \E t \in TableNames : GetPrimaryKeyPanic(t)
    \/ \E t \in TableNames : CreateTableStep(t)
    \/ \E t \in TableNames : CreateTableNoConnection(t)
    \/ \E t \in TableNames : CreateTablePanic(t)
    \/ \E t \in TableNames : ListParquetFiles(t)
    \/ \E t \in TableNames : ListParquetFilesError(t)
    \/ \E t \in TableNames : ListParquetFilesBadDate(t)
    \/ \E t \in TableNames : ReadFile(t)
    \/ \E t \in TableNames : ReadFilePanic(t)
    \/ \E t \in TableNames : InsertChunk(t)
    \/ \E t \in TableNames : InsertChunkFault(t)
    \/ \E t \in TableNames : InsertDropPanic(t)
    \/ \E t \in TableNames : UpsertRow(t)
    \/ \E t \in TableNames : UpsertRowUnwrapPanic(t)
    \/ \E t \in TableNames : UpsertRowFault(t)

Spec == Init /\ [][Next]_vars

FairSpec == Spec /\ WF_vars(Next)

(***************************************************************************)
(* The value codec on its own: one string cell goes through each statement *)
(* builder and the literal it gets is kept                                 *)
(***************************************************************************)
S4Shape == <<"M", "U", "L", "T", "I", "P", "O", "L", "Y", "G", "O", "N", "(", "(", "(", "0", " ", "0", ",", "1", " ", "0", ",", "1", " ", "1", ",", "0", " ", "1", ",", "0", " ", "0", ")", ")", ")">>
QuotedMultipolygonOpen == <<"\"", "M", "U", "L", "T", "I", "P", "O", "L", "Y", "G", "O", "N", "(">>
MultipolygonOpen == <<"M", "U", "L", "T", "I", "P", "O", "L", "Y", "G", "O", "N", "(">>
QuotedPointOpen == <<"\"", "P", "O", "I", "N", "T", "(">>

Pad(n) == [i \in 1..n |-> "0"]

\* string cells: plain text, text with quotes, and geometry-like text whose
\* closing quote or tail falls before, at and after the 30th character
PlainCells ==
    {<<>>, <<"a">>, <<"O", "'", "N">>, <<"'">>, <<"a", "'", "b", "'", "c">>,
     <<"a", "\"", "b">>, <<" ", "x">>, <<"P", "O", "I", "N", "T", "(">>, <<" ", "M", "U", "L", "T", "I", "P", "O", "L", "Y", "G", "O", "N", "(">>,
     MULTIPOLYGON, MultipolygonOpen, S4Shape}
PaddedCells ==
    {h \o Pad(n) \o tl : h \in {QuotedMultipolygonOpen, MultipolygonOpen, QuotedPointOpen},
                         n \in 14..MaxPad,
                         tl \in {<<>>, <<"\"">>, <<"\"", "y">>, <<")", "\"", "x">>}}
Cells == PlainCells \cup PaddedCells

\* a batch of one row whose name column holds the cell
CellDf(op) == [cols |-> DmsCols, rows |-> <<Row(op, <<"1">>, cell)>>]

Rendering(place) == place \notin rendered.done

\* insert_dataframe_in_target_db renders the cell of a Load row
RenderLoad ==
    /\ Rendering("load")
    /\ rendered' = [rendered EXCEPT !.done = @ \cup {"load"},
                       !.load = InsertChunkQuery("t", CellDf(<<>>), 0)[1].vals[1][2]]
    /\ UNCHANGED <<MainVars, cell>>

\* upsert_dataframe_in_target_db renders the cell of an Op='I' row
RenderInsertRow ==
    /\ Rendering("insert")
    /\ rendered' = [rendered EXCEPT !.done = @ \cup {"insert"},
                       !.insert = RowQuery("t", CellDf(<<"I">>), 1, <<"id">>)[1].vals[1][2]]
    /\ UNCHANGED <<MainVars, cell>>

\* upsert_dataframe_in_target_db renders the cell of an Op='U' row, in the
\* VALUES tuple and in the SET list
RenderUpdateRow ==
    /\ Rendering("update")
    /\ LET query == RowQuery("t", CellDf(<<"U">>), 1, <<"id">>)
       IN  rendered' = [rendered EXCEPT !.done = @ \cup {"update"},
                           !.update = query[1].vals[1][2],
                           !.set = query[Len(query)].set[2][2]]
    /\ UNCHANGED <<MainVars, cell>>

\* upsert_dataframe_in_target_db renders the cell as the key of an Op='D' row
RenderDeleteKey ==
    /\ Rendering("delete")
    /\ rendered' = [rendered EXCEPT !.done = @ \cup {"delete"},
                       !.delete = RowQuery("t", CellDf(<<"D">>), 1, <<"name">>)[1].vals[1]]
    /\ UNCHANGED <<MainVars, cell>>

\* PostgresGeometryType::new(cell).is_geometry_type()
DetectGeometry ==
    /\ Rendering("geometry")
    /\ rendered' = [rendered EXCEPT !.done = @ \cup {"geometry"},
                       !.geometry = is_geometry_type(PostgresGeometryType(cell))]
    /\ UNCHANGED <<MainVars, cell>>

CodecInit ==
    /\ cell \in Cells
    /\ rendered = NoRender
    /\ args = [only_datadiff |-> FALSE, only_snapshot |-> FALSE]
    /\ only_datadiff = FALSE /\ only_snapshot = FALSE
    /\ mode = "AbsolutePath" /\ start_date = NoDate /\ stop_date = NoDate
    /\ num_of_buffers = 1
    /\ main_pc = "args" /\ snap_pc = "idle" /\ table_list = <<>>
    /\ driver = [t \in TableNames |-> NewDriver]
    /\ target = [t \in TableNames |-> NoTable]
    /\ issued = [t \in TableNames |-> <<>>]
    /\ last = [t \in TableNames |-> NoLast]
    /\ target_schema = FALSE /\ panicked = FALSE
    /\ source = SourceDb /\ calls = {} /\ lister = NoLister /\ env = NoEnv
    /\ max_connections = MaxConnections

CodecNext ==
    \/ RenderLoad
    \/ RenderInsertRow
    \/ RenderUpdateRow
    \/ RenderDeleteKey
    \/ DetectGeometry

CodecSpec == CodecInit /\ [][CodecNext]_vars

(***************************************************************************)
(* The two DDL operations run against a target in any state: the schema    *)
(* and each table may already be there, with rows, from an earlier run.    *)
(* The connection pool and the server are healthy.                         *)
(***************************************************************************)
\* how many times create_table is repeated on one table
MaxRepeat == 2

\* a table as create_table made it for the source table t
CreatedTable(t) ==
    [exists |-> TRUE, cols |-> <<"Op", "_dms_ingestion_timestamp">> \o SourceColumns(t),
     pk |-> SourcePk(t), rows |-> {}]
\* rows an earlier run left in table t
EarlierRows(t) ==
    {RowOf(CreatedTable(t), SourceColumns(t), <<<<"1">>, <<"'", "a", "'">>>>),
     RowOf(CreatedTable(t), SourceColumns(t), <<<<"2">>, <<"'", "b", "'">>>>)}
\* the states table t can be in before the run
EarlierTables(t) ==
    {NoTable} \cup {[CreatedTable(t) EXCEPT !.rows = rs] : rs \in SUBSET EarlierRows(t)}

DdlVars == <<Config, main_pc, snap_pc, table_list, driver, last>>

DdlInit ==
    /\ cell = <<>> /\ rendered = NoRender
    /\ args = [only_datadiff |-> FALSE, only_snapshot |-> FALSE]
    /\ only_datadiff = FALSE /\ only_snapshot = FALSE
    /\ mode = "AbsolutePath" /\ start_date = NoDate /\ stop_date = NoDate
    /\ num_of_buffers = 1
    /\ main_pc = "snapshot" /\ snap_pc = "running" /\ table_list = SourceTables
    /\ driver = [t \in TableNames |->
                    [NewDriver EXCEPT !.pc = "create", !.columns = SourceColumns(t),
                                      !.pk = SourcePk(t)]]
    /\ target_schema \in BOOLEAN
    /\ target \in [TableNames -> UNION {EarlierTables(t) : t \in TableNames}]
    /\ \A t \in TableNames : target[t] \in EarlierTables(t)
    /\ \A t \in TableNames : target[t].exists => target_schema
    /\ issued = [t \in TableNames |-> <<>>]
    /\ last = [t \in TableNames |-> NoLast]
    /\ panicked = FALSE
    /\ source = SourceDb /\ calls = {} /\ lister = NoLister /\ env = NoEnv
    /\ max_connections = MaxConnections

\* create_schema(schema_name), called once more
CreateSchemaAgain ==
    /\ Called("create_schema")
    /\ ~panicked
    /\ IF CreateSchemaResult.ok
       THEN target_schema' = CreateSchemaResult.exists /\ panicked' = panicked
       ELSE target_schema' = target_schema /\ panicked' = TRUE
    /\ UNCHANGED <<DdlVars, target, issued, source>>

\* create_table(column_data_types, primary_key, table, schema), called once more
CreateTableAgain(t) ==
    /\ Called("create_table")
    /\ Running(t, "create")
    /\ Len(issued[t]) < MaxRepeat
    /\ issued' = [issued EXCEPT ![t] = Append(@, [file |-> 0, row |-> 0, call |-> "create_table", kind |-> "CREATE", cols |-> <<>>, conflict |-> ~CreateTableResult(t).ok, conns |-> 1, tuples |-> 0])]
    /\ IF CreateTableResult(t).ok
       THEN Stored("create_table", t, CreateTableResult(t).tbl) /\ panicked' = panicked
       ELSE UNCHANGED <<target, source>> /\ panicked' = TRUE
    /\ UNCHANGED <<DdlVars, target_schema>>

DdlNext ==
    \/ CreateSchemaAgain
    \/ \E t \in TableNames : CreateTableAgain(t)

DdlSpec == DdlInit /\ [][DdlNext]_vars

(***************************************************************************)
(* The DateAware listing, request by request, against an object store.     *)
(* ListObjectsV2 returns the keys under the prefix that sort after         *)
(* start_after, in UTF-8 binary order, PageSize keys per page.             *)
(***************************************************************************)
\* the characters of the keys, in UTF-8 binary order
Alphabet == <<"/", "0", "1", "2", "3", "4", "5", "6", "7", "8", "9",
              "A", "D", "L", "O", "P", "S", "U", "c", "t">>
CharRank(c) == CHOOSE i \in 1..Len(Alphabet) : Alphabet[i] = c

RECURSIVE KeyLess(_, _)
\* a sorts before b
KeyLess(a, b) ==
    IF b = <<>> THEN FALSE
    ELSE IF a = <<>> THEN TRUE
    ELSE IF Head(a) = Head(b) THEN KeyLess(Tail(a), Tail(b))
    ELSE CharRank(Head(a)) < CharRank(Head(b))

\* the tables whose prefixes are listed: the name of the second contains LOAD
ListedTables == {<<"t">>, <<"U", "P", "L", "O", "A", "D", "S">>}

\* format!("{}/{}/{}/{}/", prefix_path, year, month, day): the date folder
DateFolder(date) == <<Alphabet[date + 2]>>
StartDatePath(prefix_path, date) == prefix_path \o <<"/">> \o DateFolder(date) \o <<"/">>

\* what can lie under a table's prefix: a Load file in a date folder and one
\* at the root of the table, Change files written exactly at the start date,
\* inside the window and exactly at the stop date, and a Change file in a
\* folder older than the start date that was written later
ObjectsUnder(prefix_path) ==
    {[key |-> prefix_path \o <<"/">> \o o.name, last_modified |-> o.last_modified] :
        o \in {[name |-> <<"1", "/", "L", "O", "A", "D", "1">>, last_modified |-> 1],
               [name |-> <<"L", "O", "A", "D", "1">>, last_modified |-> 1],
               [name |-> <<"3", "/", "c", "1">>, last_modified |-> 3],
               [name |-> <<"5", "/", "c", "1">>, last_modified |-> 5],
               [name |-> <<"7", "/", "c", "1">>, last_modified |-> 7],
               [name |-> <<"1", "/", "c", "1">>, last_modified |-> 5]}}

RECURSIVE SortByKey(_)
SortByKey(S) ==
    IF S = {} THEN <<>>
    ELSE LET first == CHOOSE o \in S : \A p \in S \ {o} : KeyLess(o.key, p.key)
         IN  <<first>> \o SortByKey(S \ {first})

\* list_objects_v2().start_after(start_date_path).prefix(prefix_path): the
\* whole listing the store will return, page after page
ListObjectsV2(objects, start_after) ==
    Paginate(SortByKey({o \in objects : KeyLess(start_after, o.key)}))

\* the response to the request that carries token (NoToken: the first page)
Response(pages, token) ==
    LET i == IF token = NoToken THEN 1 ELSE token
    IN  [contents |-> pages[i],
         next_continuation_token |-> IF i < Len(pages) THEN i + 1 ELSE NoToken]

\* a loop that stops after the first response
LoopEnds_AfterFirstPage(next_token) == TRUE
\* if next_token.is_none() { break }
LoopEnds(next_token) == next_token = NoToken

ListInit ==
    /\ cell = <<>> /\ rendered = NoRender
    /\ args = [only_datadiff |-> FALSE, only_snapshot |-> FALSE]
    /\ only_datadiff = FALSE /\ only_snapshot = FALSE
    /\ mode = "DateAware"
    /\ start_date \in {1, 3}
    /\ stop_date \in {NoDate, 7}
    /\ num_of_buffers = 1
    /\ main_pc = "snapshot" /\ snap_pc = "running" /\ table_list = <<>>
    /\ driver = [t \in TableNames |-> NewDriver]
    /\ target = [t \in TableNames |-> NoTable]
    /\ issued = [t \in TableNames |-> <<>>]
    /\ last = [t \in TableNames |-> NoLast]
    /\ target_schema = TRUE /\ panicked = FALSE
    /\ source = SourceDb /\ calls = {} /\ env = NoEnv
    /\ max_connections = MaxConnections
    /\ \E prefix_path \in ListedTables : \E objects \in SUBSET ObjectsUnder(prefix_path) :
          lister = [NoLister EXCEPT
                      !.pc = "request", !.objects = objects, !.prefix = prefix_path,
                      !.pages = ListObjectsV2(objects, StartDatePath(prefix_path, start_date))]

ListVars == <<args, only_datadiff, only_snapshot, mode, start_date, stop_date,
              num_of_buffers, main_pc, snap_pc, table_list, driver, target, issued,
              last, target_schema, panicked, source, calls, cell, rendered, env,
              max_connections>>

\* get_files_from_s3_based_on_date: one turn of the loop, a request with the
\* token of the previous response and the filter over the page it returns
SendListRequest ==
    /\ lister.pc = "request"
    /\ LET response == Response(lister.pages, lister.next_token)
       IN  lister' = [lister EXCEPT
               !.sent = Append(@, lister.next_token),
               !.next_token = response.next_continuation_token,
               !.files = @ \o FilterPage(response.contents, start_date, stop_date),
               !.pc = IF LoopEnds(response.next_continuation_token)
                      THEN "collected" ELSE "request"]
    /\ UNCHANGED ListVars

\* send().await.map_err(..)?: the request fails and the listing returns Err
SendListRequestError ==
    /\ lister.pc = "request"
    /\ lister' = [lister EXCEPT !.pc = "error", !.sent = Append(@, lister.next_token)]
    /\ UNCHANGED ListVars

\* get_list_of_parquet_files_from_s3: files_list.rotate_right(load_files_count)
RotateLoadFiles ==
    /\ lister.pc = "collected"
    /\ lister' = [lister EXCEPT
           !.plan = rotate_right(lister.files, LoadFilesCount(lister.files)),
           !.pc = "done"]
    /\ UNCHANGED ListVars

ListNext ==
    \/ SendListRequest
    \/ SendListRequestError
    \/ RotateLoadFiles

ListSpec == ListInit /\ [][ListNext]_vars

\* the tokio runtime keeps polling the future of the listing
FairListSpec == ListSpec /\ WF_vars(ListNext)

(***************************************************************************)
(* The bulk insert of one Load batch of t3 under every setting of the      *)
(* tuning variables.  The target table is there, empty or with one row     *)
(* left by an earlier run, and the connection can fail under any chunk.    *)
(***************************************************************************)
\* a row of t3 that an earlier run left in the target
OldRow(j) == [c \in {"id", "name"} |->
                 IF c = "id" THEN IntV(<<Numerals[j + 1]>>) ELSE StrV(<<"o", "l", "d">>)]

\* the values DELAYABLE_CONFIG takes: the items between its commas
DelayableConfigs ==
    {NoList,
     Text(<<<<"public", ".", "t1">>>>),
     Text(<<<<"public", ".", "t3">>>>),
     Text(<<<<"public", ".", "t1">>, <<"public", ".", "t3">>>>),
     Text(<<<<"t3">>>>)}

ApplyInit ==
    /\ cell = <<>> /\ rendered = NoRender
    /\ args = [only_datadiff |-> FALSE, only_snapshot |-> FALSE]
    /\ only_datadiff = FALSE /\ only_snapshot = FALSE
    /\ mode = "AbsolutePath" /\ start_date = NoDate /\ stop_date = NoDate
    /\ num_of_buffers = 1
    /\ main_pc = "snapshot" /\ snap_pc = "running" /\ table_list = <<"t3">>
    /\ \E h \in 0..MaxRows :
          driver = [t \in TableNames |->
                      IF t = "t3"
                      THEN [pc |-> "read", columns |-> SourceColumns(t), pk |-> SourcePk(t),
                            plan |-> <<BatchKey(h)>>, idx |-> 1, off |-> 0]
                      ELSE NewDriver]
    /\ \E old \in {{}} \cup {{OldRow(j)} : j \in 1..MaxRows} :
          target = [t \in TableNames |->
                      IF t = "t3"
                      THEN [exists |-> TRUE, cols |-> SourceColumns(t), pk |-> SourcePk(t),
                            rows |-> old]
                      ELSE NoTable]
    /\ issued = [t \in TableNames |-> <<>>]
    /\ last = [t \in TableNames |-> NoLast]
    /\ target_schema = TRUE /\ panicked = FALSE
    /\ source = SourceDb /\ calls = {} /\ lister = NoLister
    /\ env \in [DELAYABLE_CONFIG : DelayableConfigs,
                ROWS_PER_DF : {Unset, BadText, Text(1), Text(3)},
                DELAY_INSERT : {Unset, BadText, Text(0), Text(1)}]
    /\ max_connections = MaxConnections

ApplyNext ==
    \E t \in TableNames :
        \/ ReadFile(t)
        \/ InsertChunk(t)
        \/ InsertChunkFault(t)
        \/ SleepAfterChunk(t)

ApplySpec == ApplyInit /\ [][ApplyNext]_vars

(***************************************************************************)
(* Two tables replayed against a healthy source, target and bucket, where  *)
(* a source table may have been declared without a primary key.            *)
(***************************************************************************)
\* the source database with the primary key of some tables left out
KeylessSources ==
    {[t \in TableNames |-> [SourceDb[t] EXCEPT !.pk = IF t \in keyless THEN <<>> ELSE @]] :
        keyless \in SUBSET {"t2", "t3"}}

KeylessInit ==
    /\ cell = <<>> /\ rendered = NoRender
    /\ args = [only_datadiff |-> FALSE, only_snapshot |-> FALSE]
    /\ only_datadiff = FALSE /\ only_snapshot = FALSE
    /\ mode = "DateAware" /\ start_date = 3 /\ stop_date = NoDate
    /\ num_of_buffers = 2
    /\ main_pc = "snapshot" /\ snap_pc = "running" /\ table_list = <<"t2", "t3">>
    /\ driver = [t \in TableNames |->
                    IF t \in {"t2", "t3"} THEN [NewDriver EXCEPT !.pc = "columns"]
                    ELSE NewDriver]
    /\ target = [t \in TableNames |-> NoTable]
    /\ issued = [t \in TableNames |-> <<>>]
    /\ last = [t \in TableNames |-> NoLast]
    /\ target_schema = TRUE /\ panicked = FALSE
    /\ source \in KeylessSources
    /\ calls = {} /\ lister = NoLister /\ env = NoEnv
    /\ max_connections = MaxConnections

\* create_table: the server rejects the statement and the expect panics
CreateTableRejected(t) ==
    /\ ~CreateTableResult(t).ok
    /\ CreateTablePanic(t)

KeylessNext ==
    \E t \in TableNames :
        \/ GetTableColumns(t)
        \/ GetPrimaryKey(t)
        \/ CreateTableStep(t)
        \/ CreateTableRejected(t)
        \/ ListParquetFiles(t)
        \/ ReadFile(t)
        \/ InsertChunk(t)
        \/ InsertDropPanic(t)
        \/ UpsertRow(t)

KeylessSpec == KeylessInit /\ [][KeylessNext]_vars

(***************************************************************************)
(* The value codec on decimal cells: one cell goes through the codec of    *)
(* the bulk insert and through the codec of the row statements.            *)
(***************************************************************************)
\* unscaled integers: small ones, the ends of i64 and the first values past
\* them, and the ends of i128
DecimalIntegers ==
    {<<"0">>, <<"5">>, <<"-", "5">>, <<"2", "4", "0", "0", "0">>,
     <<"-", "1", "2", "3", "4">>,
     I64MaxText, <<"-">> \o I64MinText,
     I64MinText, <<"-">> \o SubSeq(I64MinText, 1, 18) \o <<"9">>,
     <<"1", "7", "0", "1", "4", "1", "1", "8", "3", "4", "6", "0", "4", "6", "9", "2", "3",
       "1", "7", "3", "1", "6", "8", "7", "3", "0", "3", "7", "1", "5", "8", "8", "4", "1",
       "0", "5", "7", "2", "7">>,
     <<"-", "1", "7", "0", "1", "4", "1", "1", "8", "3", "4", "6", "0", "4", "6", "9", "2",
       "3", "1", "7", "3", "1", "6", "8", "7", "3", "0", "3", "7", "1", "5", "8", "8", "4",
       "1", "0", "5", "7", "2", "8">>}
\* scales from none up to the 28 digits a Decimal carries
DecimalScales == {0, 1, 2, 3, 5, 19, 28}
DecimalCells == {DecimalV(n, s) : n \in DecimalIntegers, s \in DecimalScales}

DecimalInit ==
    /\ cell \in DecimalCells
    /\ rendered = NoRender
    /\ args = [only_datadiff |-> FALSE, only_snapshot |-> FALSE]
    /\ only_datadiff = FALSE /\ only_snapshot = FALSE
    /\ mode = "AbsolutePath" /\ start_date = NoDate /\ stop_date = NoDate
    /\ num_of_buffers = 1
    /\ main_pc = "args" /\ snap_pc = "idle" /\ table_list = <<>>
    /\ driver = [t \in TableNames |-> NewDriver]
    /\ target = [t \in TableNames |-> NoTable]
    /\ issued = [t \in TableNames |-> <<>>]
    /\ last = [t \in TableNames |-> NoLast]
    /\ target_schema = FALSE /\ panicked = FALSE
    /\ source = SourceDb /\ calls = {} /\ lister = NoLister /\ env = NoEnv
    /\ max_connections = MaxConnections

DecimalVars == <<args, only_datadiff, only_snapshot, mode, start_date, stop_date,
                 num_of_buffers, main_pc, snap_pc, table_list, driver, target, issued,
                 last, target_schema, source, calls, lister, env, cell,
                 max_connections>>

\* preprocess_value on a decimal cell of a Load chunk
RenderDecimalLoad ==
    /\ ~panicked /\ "load" \notin rendered.done
    /\ IF DecimalPanics(cell.v, cell.scale)
       THEN panicked' = TRUE /\ rendered' = rendered
       ELSE /\ panicked' = panicked
            /\ rendered' = [rendered EXCEPT !.done = @ \cup {"load"},
                                            !.load = preprocess_value(cell)]
    /\ UNCHANGED DecimalVars

\* RowStruct::new(..).displayed() on a decimal cell of a Change row
RenderDecimalRow ==
    /\ ~panicked /\ "insert" \notin rendered.done
    /\ IF DecimalPanics(cell.v, cell.scale)
       THEN panicked' = TRUE /\ rendered' = rendered
       ELSE /\ panicked' = panicked
            /\ rendered' = [rendered EXCEPT !.done = @ \cup {"insert"},
                                            !.insert = displayed(cell)]
    /\ UNCHANGED DecimalVars

DecimalNext ==
    \/ RenderDecimalLoad
    \/ RenderDecimalRow

DecimalSpec == DecimalInit /\ [][DecimalNext]_vars

(***************************************************************************)
(* Two tables replayed against a target pool of max_connections clients.   *)
(* The pool is built with PoolConfig::new(max_connections), which sets no  *)
(* wait timeout: pool.get() waits until a client is returned.              *)
(***************************************************************************)
\* the clients of the target pool held by drivers between statements
CheckedOut == Cardinality({t \in TableNames : ClientsHeld(t) = 1})
\* the clients pool.get() can still hand out
Free == max_connections - CheckedOut

PoolInit ==
    /\ cell = <<>> /\ rendered = NoRender
    /\ args = [only_datadiff |-> FALSE, only_snapshot |-> FALSE]
    /\ only_datadiff = FALSE /\ only_snapshot = FALSE
    /\ mode = "DateAware" /\ start_date = 3 /\ stop_date = NoDate
    /\ num_of_buffers \in 1..MaxBuffers
    /\ max_connections \in 1..MaxConnections
    /\ main_pc = "snapshot" /\ snap_pc = "running" /\ table_list = <<"t2", "t3">>
    /\ driver = [t \in TableNames |-> NewDriver]
    /\ target = [t \in TableNames |-> NoTable]
    /\ issued = [t \in TableNames |-> <<>>]
    /\ last = [t \in TableNames |-> NoLast]
    /\ target_schema = TRUE /\ panicked = FALSE
    /\ source = SourceDb /\ calls = {} /\ lister = NoLister /\ env = NoEnv

\* create_table: pool.get() returns a client, the statement runs, the client
\* goes back to the pool
PoolCreateTable(t) ==
    /\ Free >= 1
    /\ CreateTableStep(t)

\* the batch is read and the client of the function is taken (lines 230, 322)
PoolReadFile(t) ==
    /\ driver[t].pc = "read"
    /\ AfterRead(t) # "panic" => Free >= 1
    /\ ReadFile(t)

\* upsert_dataframe_in_target_db: an I or U row takes a second client for its
\* statement (line 422); a D row runs on the client of the function
PoolUpsertRow(t) ==
    /\ driver[t].pc = "upsert"
    /\ IsDeleteRow(CurrentDf(t), driver[t].off + 1) \/ Free >= 1
    /\ UpsertRow(t)

PoolNext ==
    \E t \in TableNames :
        \/ StartDriver(t)
        \/ GetTableColumns(t)
        \/ GetPrimaryKey(t)
        \/ PoolCreateTable(t)
        \/ ListParquetFiles(t)
        \/ PoolReadFile(t)
        \/ InsertChunk(t)
        \/ InsertDropPanic(t)
        \/ PoolUpsertRow(t)

PoolSpec == PoolInit /\ [][PoolNext]_vars

(***************************************************************************)
(* The upsert of one Change batch of t3 whose four columns come in any     *)
(* order, against a target table that is there, empty or with rows.        *)
(***************************************************************************)
\* the orders the columns of a batch can come in
ColumnOrders == Orders(Range(DmsCols))

ShuffledInit ==
    /\ cell = <<>> /\ rendered = NoRender
    /\ args = [only_datadiff |-> FALSE, only_snapshot |-> FALSE]
    /\ only_datadiff = FALSE /\ only_snapshot = FALSE
    /\ mode = "AbsolutePath" /\ start_date = NoDate /\ stop_date = NoDate
    /\ num_of_buffers = 1
    /\ main_pc = "snapshot" /\ snap_pc = "running" /\ table_list = <<"t3">>
    /\ \E order \in ColumnOrders :
          driver = [t \in TableNames |->
                      IF t = "t3"
                      THEN [pc |-> "read", columns |-> SourceColumns(t), pk |-> SourcePk(t),
                            plan |-> <<ShuffledKey(order)>>, idx |-> 1, off |-> 0]
                      ELSE NewDriver]
    /\ \E tbl \in EarlierTables("t3") \ {NoTable} :
          target = [t \in TableNames |-> IF t = "t3" THEN tbl ELSE NoTable]
    /\ issued = [t \in TableNames |-> <<>>]
    /\ last = [t \in TableNames |-> NoLast]
    /\ target_schema = TRUE /\ panicked = FALSE
    /\ source = SourceDb /\ calls = {} /\ lister = NoLister /\ env = NoEnv
    /\ max_connections = MaxConnections

ShuffledNext ==
    \E t \in TableNames :
        \/ ReadFile(t)
        \/ UpsertRow(t)
        \/ UpsertRowFault(t)

ShuffledSpec == ShuffledInit /\ [][ShuffledNext]_vars

(***************************************************************************)
(* Properties                                                              *)
(***************************************************************************)
Terminal(t) == driver[t].pc \in {"done", "failed"}
AllTerminal == \A t \in TableNames : Listed(t) => Terminal(t)
\* nothing runs any more: main returned or a panic unwound it
RunOver == panicked \/ main_pc = "exit"

\* the CDC row or first Load row that was applied last on table t
LastRow(t) == Content(driver[t].plan[last[t].file]).rows[last[t].row]
\* the position in the DMS columns of the single key column of table t
KeyIndex(t) == CHOOSE i \in 1..Len(DmsCols) : DmsCols[i] = SourcePk(t)[1]
\* the stored rows of table t whose key is the key of the DMS row r
SameKey(t, rows, r) == {o \in rows : o[SourcePk(t)[1]].v = r[KeyIndex(t)].v}

\* C1: in every plan of the DateAware locator each Load artifact has a
\* smaller index than each Change artifact, whatever the listing order.
C1_LoadsBeforeChanges ==
    \A t \in TableNames :
        \A i, j \in 1..Len(driver[t].plan) :
            (is_load_file(driver[t].plan[i]) /\ ~is_load_file(driver[t].plan[j])) => i < j

\* C2: a driver sends its statements file by file in plan order, a Load
\* file through the bulk insert and a Change file through upsert, and no
\* Change row is applied before every Load file of the plan was applied.
C2_SerialLoadsThenChanges ==
    \A t \in TableNames :
        \A p \in 1..Len(issued[t]) :
            LET e == issued[t][p]
            IN  e.file > 0 =>
                /\ \A q \in 1..(p - 1) : issued[t][q].file <= e.file
                /\ e.file <= driver[t].idx
                /\ (e.call = "insert_dataframe") = is_load_file(driver[t].plan[e.file])
                /\ e.call = "upsert_dataframe" =>
                       \A g \in 1..Len(driver[t].plan) :
                           is_load_file(driver[t].plan[g]) => g < e.file

\* C3: when a driver has failed, every other driver of the run still
\* reaches DONE or FAILED: at the end of the run no driver is left
\* unstarted or half-way.
C3_FailureIsolated ==
    (RunOver /\ \E t \in TableNames : driver[t].pc = "failed") => AllTerminal

\* C4: the number of drivers started and not yet terminal never exceeds
\* NUM_OF_BUFFERS.
C4_FanOutBound == ActiveCount <= num_of_buffers

C4_Witness ==
    /\ ActiveCount = num_of_buffers
    /\ num_of_buffers < Len(table_list)
    /\ \E t \in TableNames : Listed(t) /\ driver[t].pc = "pending"

\* once verification began a step sends nothing to the target
NoStatementDuringValidate ==
    main_pc \in {"validate", "exit"} => (issued' = issued /\ target' = target)

\* C5: snapshot returns and verification starts only when every driver is
\* terminal, and no statement reaches the target once verification began.
C5_VerifyAfterAllDrivers ==
    /\ [](snap_pc = "returned" => AllTerminal)
    /\ [](main_pc \in {"validate", "exit"} => AllTerminal)
    /\ [][NoStatementDuringValidate]_vars

C5_Witness ==
    /\ main_pc = "validate"
    /\ Len(table_list) = MaxTables
    /\ \A t \in TableNames : Len(issued[t]) >= 2

\* C6: once the drivers are handed to the scheduler, every one of them is
\* eventually started and terminal, and snapshot eventually returns.
C6_AllDriversFinish ==
    [](snap_pc = "running" => <>(snap_pc = "returned" /\ AllTerminal))

\* C7: an Op='U' row whose key is already in the target succeeds and leaves
\* exactly one row with that key, holding the CDC row's values; the other
\* rows are untouched.
C7_UpdateOverwrites ==
    \A t \in TableNames :
        (/\ last[t].kind = "U" /\ ~last[t].fault
         /\ SameKey(t, last[t].pre, LastRow(t)) # {})
        => /\ last[t].ok
           /\ Cardinality(SameKey(t, target[t].rows, LastRow(t))) = 1
           /\ \A o \in SameKey(t, target[t].rows, LastRow(t)) :
                  o["id"] = LastRow(t)[3] /\ o["name"] = LastRow(t)[4]
           /\ target[t].rows \ SameKey(t, target[t].rows, LastRow(t))
                  = last[t].pre \ SameKey(t, last[t].pre, LastRow(t))

\* C8: an Op='D' row on a single-column key sends exactly one statement, a
\* DELETE, and afterwards no row has that key while every other row is as
\* before, whether or not the key was there.
C8_DeleteByKey ==
    \A t \in TableNames :
        (last[t].kind = "D" /\ ~last[t].fault /\ Len(driver[t].pk) = 1)
        => /\ Cardinality({p \in 1..Len(issued[t]) :
                  issued[t][p].file = last[t].file /\ issued[t][p].row = last[t].row}) = 1
           /\ issued[t][Len(issued[t])].kind = "DELETE"
           /\ target[t].exists => last[t].ok
           /\ SameKey(t, target[t].rows, LastRow(t)) = {}
           /\ target[t].rows = last[t].pre \ SameKey(t, last[t].pre, LastRow(t))

\* a step leaves the statements and the rows of a failed driver's table alone
NothingAfterFailure ==
    \A t \in TableNames :
        driver[t].pc = "failed" => (issued'[t] = issued[t] /\ target'[t] = target[t])

\* C9: a row that is neither a delete nor an update is sent as an INSERT
\* without ON CONFLICT; on a key that is already there the statement
\* fails, the target is left as it was, the driver fails and nothing more
\* is applied to that table.
C9_PlainInsertConflictAborts ==
    /\ [](\A t \in TableNames :
            last[t].kind = "I" =>
                /\ issued[t][Len(issued[t])].kind = "INSERT"
                /\ ~issued[t][Len(issued[t])].conflict
                /\ (~last[t].fault /\ SameKey(t, last[t].pre, LastRow(t)) # {}) =>
                       /\ ~last[t].ok
                       /\ driver[t].pc = "failed"
                       /\ target[t].rows = last[t].pre)
    /\ [][NothingAfterFailure]_vars

C9_Witness ==
    \E t \in TableNames :
        /\ last[t].kind = "I" /\ ~last[t].fault
        /\ SameKey(t, last[t].pre, LastRow(t)) # {}
        /\ driver[t].pc = "failed"
        /\ last[t].row < Height(Content(driver[t].plan[last[t].file]))

\* The fold the claim describes, on pairs <<id, name>> with key position
\* k: I adds a new key and fails on a key that is there, U overwrites or
\* adds, D removes.
IdealRow(st, r, k) ==
    LET others == {p \in st.rows : p[k - 2] # r[k].v}
    IN  IF ~st.ok THEN st
        ELSE IF r[1].v = <<"D">> THEN [st EXCEPT !.rows = others]
        ELSE IF r[1].v = <<"U">> THEN [st EXCEPT !.rows = others \cup {<<r[3].v, r[4].v>>}]
        ELSE IF others # st.rows THEN [st EXCEPT !.ok = FALSE]
        ELSE [st EXCEPT !.rows = st.rows \cup {<<r[3].v, r[4].v>>}]

RECURSIVE IdealRows(_, _, _)
IdealRows(st, rows, k) ==
    IF rows = <<>> THEN st ELSE IdealRows(IdealRow(st, Head(rows), k), Tail(rows), k)

\* the rows of a file in DMS shape: a file without the DMS columns is a Load
IdealFileRows(c) ==
    IF c.cols # <<>> /\ c.cols[1] = "Op" THEN c.rows
    ELSE [i \in 1..Len(c.rows) |-> <<StrV(<<>>), StrV(<<"0">>)>> \o c.rows[i]]

RECURSIVE IdealPlan(_, _, _)
IdealPlan(st, plan, k) ==
    IF plan = <<>> THEN st
    ELSE IdealPlan(IdealRows(st, IdealFileRows(Content(Head(plan))), k), Tail(plan), k)

IdealTarget(t) == IdealPlan([ok |-> TRUE, rows |-> {}], driver[t].plan, KeyIndex(t))

\* the stored rows as pairs <<id, name>>
NonMetadata(rows) == {<<o["id"].v, o["name"].v>> : o \in rows}

\* the driver ended by itself: it completed, or a statement was refused
EndedOnItsOwn(t) ==
    \/ driver[t].pc = "done"
    \/ driver[t].pc = "failed" /\ last[t].kind # "none" /\ ~last[t].ok /\ ~last[t].fault

\* C10: the rows of a Change file are applied in order, so the table ends
\* as the left fold of the row operations over what the Load files left:
\* Load {(1,a)} then I(2,b), U(1,a2), D(2,b) ends as {(1,a2)}.
C10_TargetIsFoldOfRows ==
    \A t \in TableNames :
        (/\ target[t].exists
         /\ driver[t].plan # <<>>
         /\ IdealTarget(t).ok
         /\ EndedOnItsOwn(t))
        => /\ driver[t].pc = "done"
           /\ NonMetadata(target[t].rows) = IdealTarget(t).rows

\* C15: CDCOperatorPayload::new never yields a payload when both flags are
\* set (it panics), and for every other combination the payload carries the
\* two flags as they were given.
C15_PayloadFlags ==
    /\ (args.only_datadiff /\ args.only_snapshot) => main_pc = "args"
    /\ (main_pc = "args" /\ panicked) => (args.only_datadiff /\ args.only_snapshot)
    /\ main_pc # "args" =>
           (only_datadiff = args.only_datadiff /\ only_snapshot = args.only_snapshot)

C15_Witness ==
    args.only_datadiff /\ args.only_snapshot /\ main_pc = "args" /\ panicked

\* C13: in DateAware mode without a start date nothing is executed
\* against the target (no schema, no table, no statement) and no object is
\* listed or read.
C13_RefusedBeforeStart ==
    StartDateMissing =>
        /\ ~target_schema
        /\ \A t \in TableNames :
               /\ issued[t] = <<>> /\ ~target[t].exists
               /\ driver[t].pc \notin {"list", "read", "insert", "upsert", "done"}

\* C14: with a start or stop date that does not parse no driver of a
\* DateAware run reaches DONE.
C14_BadDateIsFailure ==
    (mode = "DateAware" /\ ~StartDateMissing /\ ~DatesParse) =>
        \A t \in TableNames : driver[t].pc # "done"

\* main leaves its first branch for snapshot exactly when only_datadiff is
\* unset, and reaches its end through validate exactly when only_snapshot is
\* unset
PhasesFollowFlags ==
    /\ (main_pc = "start" /\ main_pc' # "start") => (main_pc' = "snapshot" <=> ~only_datadiff)
    /\ (main_pc # "exit" /\ main_pc' = "exit") => (main_pc = "validate" <=> ~only_snapshot)
    /\ only_datadiff => (target' = target /\ issued' = issued /\ target_schema' = target_schema)

\* C16: replay runs iff only_datadiff is unset, verification runs iff
\* only_snapshot is unset, verification starts only once replay has
\* returned, and with only_datadiff nothing is written to the target.
C16_PhasesByFlags ==
    /\ [][PhasesFollowFlags]_vars
    /\ [](snap_pc # "idle" => ~only_datadiff)
    /\ [](main_pc = "validate" => (~only_snapshot /\ (only_datadiff \/ snap_pc = "returned")))
    /\ [](only_datadiff => (~target_schema /\ \A t \in TableNames : issued[t] = <<>>))

C16_Witness ==
    /\ main_pc = "exit" /\ ~only_datadiff /\ ~only_snapshot
    /\ snap_pc = "returned" /\ \E t \in TableNames : issued[t] # <<>>

\* a Load artifact whose batch has a non-metadata column the source lacks
DriftedLoad(t, key) ==
    /\ is_load_file(key)
    /\ Range(Content(key).cols) \ {"Op", "_dms_ingestion_timestamp"} \notin SUBSET Range(SourceColumns(t))

\* C11: a Load artifact with a column that is neither Op nor
\* _dms_ingestion_timestamp and is absent from the source columns fails the
\* driver before any statement of that artifact, and nothing later in the
\* plan is applied.
C11_SchemaDriftAborts ==
    \A t \in TableNames : \A f \in 1..Len(driver[t].plan) :
        DriftedLoad(t, driver[t].plan[f]) =>
            /\ \A p \in 1..Len(issued[t]) : issued[t][p].file < f
            /\ driver[t].idx <= f
            /\ driver[t].idx = f => driver[t].pc \in {"read", "failed"}
            /\ driver[t].pc # "done"

C11_Witness ==
    \E t \in TableNames :
        /\ driver[t].pc = "failed" /\ driver[t].idx >= 1
        /\ driver[t].idx < Len(driver[t].plan)
        /\ DriftedLoad(t, driver[t].plan[driver[t].idx])

\* the non-metadata columns of a batch, in batch order
StrippedColumns(df) == Retain(df.cols, df.cols, {"Op", "_dms_ingestion_timestamp"})

\* every step the bulk insert takes sends an INSERT whose column list is the
\* batch's columns without Op and _dms_ingestion_timestamp
BulkInsertAlwaysInserts ==
    \A t \in TableNames :
        (driver[t].pc = "insert" /\ driver'[t] # driver[t]) =>
            /\ Len(issued'[t]) = Len(issued[t]) + 1
            /\ issued'[t][Len(issued'[t])].kind = "INSERT"
            /\ issued'[t][Len(issued'[t])].cols = StrippedColumns(CurrentDf(t))

\* C12 as stated: for every Load batch, with or without the two DMS
\* columns, the bulk insert generates INSERT statements whose column list
\* has neither DMS column and is the remaining columns in batch order.
C12_MetadataStripped == [][BulkInsertAlwaysInserts]_vars

\* C12 amended: every INSERT of the bulk insert comes from a batch that has
\* both DMS columns, and its column list has neither and is the remaining
\* columns in batch order; a batch that lacks one gets no statement.
C12_MetadataStrippedWhenPresent ==
    \A t \in TableNames : \A p \in 1..Len(issued[t]) :
        issued[t][p].call = "insert_dataframe" =>
            /\ issued[t][p].kind = "INSERT"
            /\ HasDmsColumns(Content(driver[t].plan[issued[t][p].file]))
            /\ "Op" \notin Range(issued[t][p].cols)
            /\ "_dms_ingestion_timestamp" \notin Range(issued[t][p].cols)
            /\ issued[t][p].cols = StrippedColumns(Content(driver[t].plan[issued[t][p].file]))

C12_Witness ==
    \E t \in TableNames : \E p \in 1..Len(issued[t]) :
        /\ issued[t][p].call = "insert_dataframe"
        /\ issued[t][p].cols = <<"id", "name">>
        /\ last[t].ok

\* the cell's text starts with an accepted geometry keyword followed by '('
StartsWithGeometryKeyword(s) ==
    \E k \in ACCEPTED_GEOMETRY_KEYWORDS :
        Len(s) > Len(k) /\ SubSeq(s, 1, Len(k)) = k /\ s[Len(k) + 1] = "("

\* ST_GeomFromText('<raw>', 4326)
AsGeomFromText(raw) ==
    <<"S", "T", "_", "G", "e", "o", "m", "F", "r", "o", "m", "T", "e", "x", "t", "(", "'">>
    \o raw \o <<"'", ",", " ", "4", "3", "2", "6", ")">>

\* C17: a string cell that starts with an accepted geometry keyword followed
\* by '(' is rendered as ST_GeomFromText('<raw>', 4326) by the Load bulk
\* insert and by the CDC row insert and upsert alike.
C17_GeometryEverywhere ==
    StartsWithGeometryKeyword(cell) =>
        /\ "load" \in rendered.done => rendered.load = AsGeomFromText(cell)
        /\ "insert" \in rendered.done => rendered.insert = AsGeomFromText(cell)
        /\ "update" \in rendered.done =>
               (rendered.update = AsGeomFromText(cell) /\ rendered.set = AsGeomFromText(cell))

\* the string in single quotes with every ' doubled
QuotedLiteral(str) == <<"'">> \o ReplaceChar(str, "'", <<"'", "'">>) \o <<"'">>

\* the literals made of the cell so far
Literals ==
    {rendered.load : x \in {"load"} \cap rendered.done}
    \cup {rendered.insert : x \in {"insert"} \cap rendered.done}
    \cup {rendered.update : x \in {"update"} \cap rendered.done}
    \cup {rendered.set : x \in {"update"} \cap rendered.done}
    \cup {rendered.delete : x \in {"delete"} \cap rendered.done}

\* C18: every literal made of a string cell that is not geometry text is the
\* cell in single quotes with every ' doubled; unescaping it gives the cell
\* back and it holds no unpaired single quote.
C18_StringsEscaped ==
    ~StartsWithGeometryKeyword(cell) =>
        \A lit \in Literals :
            /\ lit = QuotedLiteral(cell)
            /\ ParseLit(lit) = StrV(cell)
            /\ Cardinality({i \in 1..Len(lit) : lit[i] = "'"}) % 2 = 0

\* the claim's decision: of the first 30 characters, without the double
\* quotes that surround them, the text before the first '(' is a keyword
KeywordBeforeParen(str) ==
    LET p == SubSeq(str, 1, Min(Len(str), NUM_OF_CHARS_FOR_GEOMETRY_TYPE_CHECK))
        q == IF Len(p) >= 2 /\ p[1] = "\"" /\ p[Len(p)] = "\""
             THEN SubSeq(p, 2, Len(p) - 1) ELSE p
    IN  \E i \in 1..Len(q) :
            /\ q[i] = "(" /\ \A j \in 1..(i - 1) : q[j] # "("
            /\ SubSeq(q, 1, i - 1) \in ACCEPTED_GEOMETRY_KEYWORDS

\* the cells that agree with the cell on their first 30 characters
SamePrefix ==
    {o \in Cells : Take(o, NUM_OF_CHARS_FOR_GEOMETRY_TYPE_CHECK)
                       = Take(cell, NUM_OF_CHARS_FOR_GEOMETRY_TYPE_CHECK)}

ExistingLeftAlone ==
    /\ target_schema => target_schema'
    /\ \A t \in TableNames : target[t].exists => target'[t] = target[t]
    /\ \A t \in TableNames :
          (target[t].exists /\ issued'[t] # issued[t]) =>
              (~panicked' /\ ~issued'[t][Len(issued'[t])].conflict)
    /\ (target_schema /\ target' = target /\ issued' = issued) => ~panicked'
C20_DdlIdempotent == [][ExistingLeftAlone]_vars
\* create_table has run MaxRepeat times on a table that had rows
C20_Witness ==
    \E t \in TableNames :
        /\ target[t].rows # {}
        /\ Len(issued[t]) = MaxRepeat
        /\ ~panicked

\* the three reads snapshot makes on the source database
SourceReads == {"get_tables_in_schema", "get_table_columns", "get_primary_key"}
\* the methods that create or change something
WritingMethods == {"create_schema", "create_table", "insert_dataframe_in_target_db",
                   "upsert_dataframe_in_target_db"}

\* C21: during replay only the table-list, column and primary-key reads are
\* invoked on the source operator, every schema or table creation, insert,
\* upsert and delete is invoked on the target operator, and the source
\* database holds what it held before the run.
C21_SourceReadTargetWritten ==
    /\ \A c \in calls : c[1] = "source" => c[2] \in SourceReads
    /\ \A c \in calls : c[2] \in WritingMethods => c[1] = "target"
    /\ source = SourceDb
\* a run that made every call and wrote rows to the target
C21_Witness ==
    /\ {c[2] : c \in calls} = SourceReads \cup WritingMethods
    /\ \E t \in TableNames : target[t].rows # {}

RECURSIVE SumHeld(_)
SumHeld(S) == IF S = {} THEN 0 ELSE LET t == CHOOSE x \in S : TRUE IN ClientsHeld(t) + SumHeld(S \ {t})

\* C22: a driver holds at most one target connection at every moment, none
\* between artifacts and none while it sleeps between chunks, so the
\* connections checked out never exceed the active drivers.
C22_OneConnectionPerDriver ==
    /\ \A t \in TableNames : \A p \in 1..Len(issued[t]) : issued[t][p].conns <= 1
    /\ \A t \in TableNames : driver[t].pc \in {"read", "sleep"} => ClientsHeld(t) = 0
    /\ SumHeld(TableNames) <= ActiveCount

\* the request-by-request listing computes what the locator of Spec computes
ListingAgrees ==
    lister.pc = "done" => lister.plan = DateAwarePlan(lister.pages, start_date, stop_date)

\* the Load files of a list followed by its Change files, each class in the
\* order of the list
StablePartition(files) ==
    SelectSeq(files, LAMBDA f : is_load_file(f)) \o SelectSeq(files, LAMBDA f : ~is_load_file(f))

\* C23: the DateAware plan is the stable partition of the collected listing:
\* its Load files in listing order, then its Change files in listing order.
C23_PlanIsStablePartition ==
    lister.pc = "done" => lister.plan = StablePartition(lister.files)

RECURSIVE FinalComponent(_)
\* the part of a key after its last '/'
FinalComponent(key) ==
    IF \A i \in 1..Len(key) : key[i] # "/" THEN key ELSE FinalComponent(Tail(key))
\* the final path component contains LOAD
IsLoadName(key) == ContainsLOAD(FinalComponent(key))
\* last-modified is after the start and, if there is a stop, before it
InWindow(object) ==
    /\ object.last_modified > start_date
    /\ stop_date = NoDate \/ object.last_modified < stop_date
\* the objects the store returned
Returned == {o \in lister.objects : \E i \in 1..Len(lister.pages) :
                \E j \in 1..Len(lister.pages[i]) : lister.pages[i][j] = o}

\* C24: an artifact is exempt from the date filter, counted for the rotation
\* and dispatched to the bulk insert exactly when the final component of its
\* key contains LOAD; LOAD in the table segment does not make it a Load.
C24_LoadByFinalComponent ==
    lister.pc = "done" =>
        /\ \A o \in Returned :
              (o.key \in Range(lister.files) /\ ~InWindow(o)) => IsLoadName(o.key)
        /\ LoadFilesCount(lister.files) =
              Cardinality({i \in 1..Len(lister.files) : IsLoadName(lister.files[i])})
        /\ \A i \in 1..Len(lister.plan) :
              is_load_file(lister.plan[i]) <=> IsLoadName(lister.plan[i])

\* C25 as stated: an object under the prefix is in the plan iff it lies in
\* the window or its key contains LOAD, so every Load object under the prefix
\* is in the plan.
C25_IncludedIffWindowOrLoad ==
    lister.pc = "done" =>
        \A o \in lister.objects :
            o.key \in Range(lister.plan) <=> (InWindow(o) \/ ContainsLOAD(o.key))

\* C25, amended: the rule holds for the objects whose key sorts after the
\* start-date path, the only ones the listing asks the store for. Such an
\* object is in the plan iff last-modified > start and (no stop or
\* last-modified < stop), or its key contains LOAD; an object at or before
\* the start-date path is never in the plan, Load or not.
C25_IncludedAfterStartPath ==
    lister.pc = "done" =>
        \A o \in lister.objects :
            o.key \in Range(lister.plan) <=>
                /\ KeyLess(StartDatePath(lister.prefix, start_date), o.key)
                /\ InWindow(o) \/ ContainsLOAD(o.key)
\* the plan was made of a listing that held a Change object modified exactly
\* at the start, one modified exactly at the stop and a Load object older
\* than the start; only the Load object is in the plan
C25_Witness ==
    /\ lister.pc = "done" /\ stop_date # NoDate
    /\ \E a, b, c \in Returned :
          /\ a.last_modified = start_date /\ ~ContainsLOAD(a.key)
          /\ b.last_modified = stop_date /\ ~ContainsLOAD(b.key)
          /\ c.last_modified < start_date /\ ContainsLOAD(c.key)
          /\ a.key \notin Range(lister.plan) /\ b.key \notin Range(lister.plan)
          /\ c.key \in Range(lister.plan)

RECURSIVE Flatten(_)
Flatten(pages) == IF pages = <<>> THEN <<>> ELSE Head(pages) \o Flatten(Tail(pages))
\* the keys of the qualifying objects of the whole listing, in listing order
QualifyingKeys(pages) ==
    LET qualifying == SelectSeq(Flatten(pages), LAMBDA o : Qualifies(o, start_date, stop_date))
    IN  [i \in 1..Len(qualifying) |-> qualifying[i].key]
\* the token the store returned with the response to the i-th request
TokenAfter(i) == Response(lister.pages, lister.sent[i]).next_continuation_token

PagedListingSafe ==
    /\ \A i \in 1..Len(lister.sent) :
          lister.sent[i] = IF i = 1 THEN NoToken ELSE TokenAfter(i - 1)
    /\ \A i \in 1..(Len(lister.sent) - 1) : TokenAfter(i) # NoToken
    /\ (lister.pc = "request" /\ lister.sent # <<>>) => TokenAfter(Len(lister.sent)) # NoToken
    /\ lister.pc \in {"collected", "done"} =>
          /\ TokenAfter(Len(lister.sent)) = NoToken
          /\ Len(lister.sent) = Len(lister.pages)
          /\ lister.files = QualifyingKeys(lister.pages)
          /\ \A i, j \in 1..Len(lister.files) : lister.files[i] = lister.files[j] => i = j

\* C26: the first request carries no token and every later one the token of
\* the previous response; requests go on exactly while responses carry a
\* token; the result is the qualifying objects of all pages in page order,
\* none skipped or twice; and the listing ends.
C26_PagedListing == [](PagedListingSafe) /\ <>(lister.pc # "request")
\* a listing of several pages was collected and an object was filtered out
C26_Witness ==
    /\ lister.pc = "collected"
    /\ Len(lister.pages) >= 2
    /\ Len(lister.files) >= 2
    /\ Len(lister.files) < Len(Flatten(lister.pages))

\* the bulk insert statements sent for a table, in order
Inserts(t) == SelectSeq(issued[t], LAMBDA r : r.call = "insert_dataframe")
\* the height of the Load batch in the plan of t3
BatchRows == BatchHeight(driver["t3"].plan[1])
CeilDiv(h, c) == (h + c - 1) \div c
\* row i of the batch as the target stores it
StoredBatchRow(i) == [c \in {"id", "name"} |->
                         IF c = "id" THEN IntV(<<Numerals[i + 1]>>) ELSE StrV(<<"r">>)]
\* the rows of the batch that are in the target
CommittedBatchRows == {r \in target["t3"].rows : r["name"] = StrV(<<"r">>)}
\* no statement of t3 has failed
NoFailure == last["t3"].ok

\* C27: a batch of h rows with chunk size c >= 1 is sent as ceil(h/c) INSERT
\* statements in order: the k-th one (from 0) holds the rows from k*c up to
\* min((k+1)*c, h), the rows of the statements sent so far are the rows in
\* the target, and a batch of no rows sends no statement
C27_ChunkedInserts ==
    LET h == BatchRows
        c == rows_per_df("t3")
        ins == Inserts("t3")
    IN  /\ c >= 1
        /\ Len(ins) <= CeilDiv(h, c)
        /\ \A k \in 1..Len(ins) :
              /\ ins[k].kind = "INSERT"
              /\ ins[k].row = (k - 1) * c + 1
              /\ ins[k].tuples = Min(c, h - (k - 1) * c)
              /\ ins[k].tuples >= 1
        /\ NoFailure =>
              CommittedBatchRows = {StoredBatchRow(i) : i \in 1..Min(Len(ins) * c, h)}
        /\ driver["t3"].pc = "done" => Len(ins) = CeilDiv(h, c)
        /\ h = 0 => ins = <<>>

\* a batch went through in two or more statements, the last one short
C27_Witness ==
    LET ins == Inserts("t3")
    IN  /\ driver["t3"].pc = "done"
        /\ Len(ins) >= 2
        /\ ins[Len(ins)].tuples < rows_per_df("t3")
        /\ Cardinality(CommittedBatchRows) = BatchRows

\* C28: when the k-th chunk fails, the rows of chunks 1..k-1 stay in the
\* target, the failed chunk leaves nothing, no later chunk is sent and the
\* driver has aborted
C28_FailedChunkStops ==
    LET c == rows_per_df("t3")
        ins == Inserts("t3")
        k == Len(ins)
    IN  (k >= 1 /\ ~NoFailure) =>
            /\ driver["t3"].pc = "failed"
            /\ panicked
            /\ last["t3"].row = ins[k].row
            /\ target["t3"].rows = last["t3"].pre
            /\ CommittedBatchRows = {StoredBatchRow(i) : i \in 1..((k - 1) * c)}

\* the server rejected a chunk after an earlier chunk was committed
C28_Witness ==
    /\ Len(Inserts("t3")) >= 2
    /\ ~NoFailure /\ ~last["t3"].fault
    /\ CommittedBatchRows # {}
    /\ driver["t3"].pc = "failed"

\* the table's fingerprint is an item of DELAYABLE_CONFIG
OnThrottleList(t) ==
    /\ env.DELAYABLE_CONFIG.kind = "set"
    /\ \E i \in 1..Len(env.DELAYABLE_CONFIG.value) :
          env.DELAYABLE_CONFIG.value[i] = <<SchemaName, ".", t>>

\* C29: the loop sleeps only for a table whose fingerprint <schema>.<table>
\* is on the throttle list and only when DELAY_INSERT is true; a table that
\* is not on the list never sleeps and is sent in chunks of the default
\* size, whatever ROWS_PER_DF and DELAY_INSERT hold
C29_ThrottleOnlyListed ==
    LET h == BatchRows
        ins == Inserts("t3")
    IN  /\ driver["t3"].pc = "sleep" =>
              OnThrottleList("t3") /\ env.DELAY_INSERT = Text(1)
        /\ ~OnThrottleList("t3") =>
              /\ driver["t3"].pc # "sleep"
              /\ driver["t3"].pc = "failed" => ins # <<>>
              /\ \A k \in 1..Len(ins) :
                    /\ ins[k].row = (k - 1) * RowsPerDf + 1
                    /\ ins[k].tuples = Min(RowsPerDf, h - (k - 1) * RowsPerDf)

\* the driver of a throttled table sleeps after its first chunk
C29_Witness ==
    /\ driver["t3"].pc = "sleep"
    /\ Len(Inserts("t3")) = 1
    /\ driver["t3"].off < BatchRows

\* create_table returned Err to the driver of t: the driver is past the call
\* and no CREATE TABLE statement was sent for t
CreateReturnedErr(t) ==
    /\ driver[t].pc \in {"list", "read", "insert", "upsert", "sleep", "done"}
    /\ \A i \in 1..Len(issued[t]) : issued[t][i].kind # "CREATE"

\* create_table aborted: the statement was sent and the expect panicked
CreateAborted(t) ==
    /\ issued[t] # <<>>
    /\ issued[t][Len(issued[t])].kind = "CREATE"
    /\ driver[t].pc = "failed"
    /\ ~target[t].exists

\* C30: a driver whose create_table failed is FAILED: it has no plan of
\* artifacts and has sent no insert, upsert or delete
C30_FailedCreateEndsDriver ==
    \A t \in TableNames :
        (CreateReturnedErr(t) \/ CreateAborted(t)) =>
            /\ driver[t].pc = "failed"
            /\ driver[t].plan = <<>>
            /\ \A i \in 1..Len(issued[t]) : issued[t][i].kind = "CREATE"

\* the driver of t is past both reads of the source
PastSchemaRead(t) ==
    driver[t].pc \in {"create", "list", "read", "insert", "upsert", "sleep", "done"}
    \/ (driver[t].pc = "failed" /\ issued[t] # <<>>)

\* the read of the primary key of t failed: the driver does not hold the key
\* the source declares
PrimaryKeyReadFailed(t) == driver[t].pk # source[t].pk

\* C31: the column descriptor and the primary key are read before
\* create_table and no statement is sent for the table before both are read;
\* what the driver holds afterwards is what the source declares, and a
\* failed read leaves the driver failed with no statement sent for the table
C31_SchemaReadOnceOrFailed ==
    \A t \in TableNames :
        /\ driver[t].pc \in {"pending", "columns", "pk"} => issued[t] = <<>>
        /\ (PastSchemaRead(t) /\ ~PrimaryKeyReadFailed(t)) =>
              driver[t].columns = source[t].cols
        /\ ((driver[t].pc \notin {"pending", "columns", "pk"}) /\ PrimaryKeyReadFailed(t)
                /\ driver[t].columns = source[t].cols) =>
              driver[t].pc = "failed" /\ issued[t] = <<>>

\* the source declares no primary key for t and the driver has read that
Keyless(t) == source[t].pk = <<>> /\ PastSchemaRead(t) /\ driver[t].pk = <<>>

\* C32: a table without a primary key in the source is replayed as far as
\* its Loads go: once CREATE TABLE has been sent the target table exists,
\* and its driver fails only in an upsert
C32_KeylessLoadAccepted ==
    \A t \in TableNames :
        Keyless(t) =>
            /\ (issued[t] # <<>> /\ issued[t][1].kind = "CREATE") => target[t].exists
            /\ driver[t].pc = "failed" =>
                  issued[t][Len(issued[t])].call = "upsert_dataframe"

\* the position of the point in a text, 0 when there is none
PointAt(text) ==
    IF \E i \in 1..Len(text) : text[i] = "." 
    THEN CHOOSE i \in 1..Len(text) : text[i] = "." ELSE 0

RECURSIVE StripZeros(_)
\* digits without their leading zeros, a lone zero kept
StripZeros(digits) ==
    IF Len(digits) > 1 /\ Head(digits) = "0" THEN StripZeros(Tail(digits)) ELSE digits

\* text is the single-quoted fixed-point text of integer x 10^-scale
IsFixedPoint(text, integer, scale) ==
    /\ Len(text) >= 3 /\ Head(text) = "'" /\ text[Len(text)] = "'"
    /\ LET body == SubSeq(text, 2, Len(text) - 1)
           unsigned == IF IsNegative(body) THEN Tail(body) ELSE body
           point == PointAt(unsigned)
           whole == IF point = 0 THEN unsigned ELSE SubSeq(unsigned, 1, point - 1)
           fraction == IF point = 0 THEN <<>> ELSE SubSeq(unsigned, point + 1, Len(unsigned))
       IN  /\ IsNegative(body) = IsNegative(integer)
           /\ Len(fraction) = scale
           /\ (scale = 0) = (point = 0)
           /\ whole # <<>>
           /\ whole = StripZeros(whole)
           /\ \A i \in 1..Len(whole) : whole[i] \in Digits
           /\ \A i \in 1..Len(fraction) : fraction[i] \in Digits
           /\ StripZeros(whole \o fraction) = Magnitude(integer)

\* C33: every decimal cell is encoded, never aborting, as the single-quoted
\* fixed-point text of its value with exactly scale fractional digits
C33_DecimalEncoded ==
    /\ ~panicked
    /\ "load" \in rendered.done => IsFixedPoint(rendered.load, cell.v, cell.scale)
    /\ "insert" \in rendered.done => IsFixedPoint(rendered.insert, cell.v, cell.scale)

\* the driver of t waits in pool.get() for the client of a row statement
\* while it holds the client of the function
WaitsHolding(t) ==
    /\ driver[t].pc = "upsert"
    /\ ~IsDeleteRow(CurrentDf(t), driver[t].off + 1)
    /\ ClientsHeld(t) = 1
    /\ Free = 0

\* C34: in no reachable state is every active driver waiting for a target
\* connection while holding one
C34_NoPoolDeadlock ==
    ~(/\ ~panicked
      /\ \E t \in TableNames : Listed(t) /\ Active(t)
      /\ \A t \in TableNames : (Listed(t) /\ Active(t)) => WaitsHolding(t))

\* a step in which the listing of a table returns Err ends that driver as
\* completed with an empty plan and touches neither the target nor the run
ListingErrorHandled ==
    \A t \in TableNames :
        ListParquetFilesError(t) =>
            /\ driver'[t].pc = "done"
            /\ driver'[t].plan = <<>>
            /\ issued' = issued /\ target' = target
            /\ panicked' = panicked

\* a driver that completed on an empty plan has sent nothing but CREATE
\* TABLE and its target table holds no row
EmptyPlanApplied ==
    \A t \in TableNames :
        (driver[t].pc = "done" /\ driver[t].plan = <<>>) =>
            /\ \A i \in 1..Len(issued[t]) : issued[t][i].kind = "CREATE"
            /\ target[t].rows = {}

\* C35: when the listing of a table returns an error the driver takes the
\* plan as empty: it sends no insert, upsert or delete, the created table
\* stays empty and the driver ends completed, not failed
C35_ListingErrorIsEmptyPlan == [][ListingErrorHandled]_vars /\ []EmptyPlanApplied

\* a driver completed on an empty plan, after valid dates, with its table
\* created and empty
C35_Witness ==
    \E t \in TableNames :
        /\ mode = "DateAware" /\ DatesParse /\ ~panicked
        /\ driver[t].pc = "done" /\ driver[t].plan = <<>>
        /\ target[t].exists /\ target[t].rows = {}
        /\ Len(issued[t]) = 1

\* the value the batch holds for a column in a row
ValueOf(df, row, column) == df.rows[row][ColumnIndex(df, column)]

\* C36: the INSERT built for a row of a Change batch pairs every listed
\* column with the value the batch holds for that column in the row, in the
\* VALUES list and in the SET list, and it carries the SET list exactly when
\* the Op column of the row holds a U
C36_ColumnsPairedByName ==
    \A t \in TableNames :
        last[t].kind \in {"I", "U"} =>
            LET df == Content(driver[t].plan[last[t].file])
                row == last[t].row
                query == UpsertQuery(t, df, row, driver[t].pk)
                on_conflict == SelectSeq(query, LAMBDA f : f.k = "ON CONFLICT")
            IN  /\ \A k \in 1..Len(query[1].cols) :
                      query[1].vals[1][k] = displayed(ValueOf(df, row, query[1].cols[k]))
                /\ \A i \in 1..Len(on_conflict) : \A k \in 1..Len(on_conflict[i].set) :
                      on_conflict[i].set[k][2] =
                          displayed(ValueOf(df, row, on_conflict[i].set[k][1]))
                /\ (on_conflict # <<>>) =
                      ContainsChar(AnyValueToString(ValueOf(df, row, "Op")), "U")
====
